---- MODULE Spec2Model ----
(***************************************************************************)
(* A state-machine model of the Game Boy (DMG) emulator core: the bus      *)
(* (Memory), the PPU mode machine, the CPU interpreter, the APU's register *)
(* file and its sample ring.                                               *)
(*                                                                         *)
(* Byte arrays (vram, wram, oam, io, hram) are kept as sparse functions:   *)
(* an index outside the DOMAIN holds 0, the value the Memory constructor   *)
(* fills every array with.  The cartridge image is an input: the model     *)
(* keeps its size and, in rom, the bytes of it that have been read; a byte *)
(* is chosen when it is first read and stays what it is from then on.      *)
(* The framebuffer's pixels are not part of the model.                     *)
(***************************************************************************)
EXTENDS Integers, Naturals, Sequences, FiniteSets, TLC

VARIABLES
    mem,      \* the Memory object (bus state)
    ppu,      \* the PPU object
    cpu,      \* the CPU object
    clocks,   \* total clocks handed to PPU::step so far
    ret,      \* what the last CPU::step() call returned, and by which return
    nwrites,  \* bus write calls made so far by the driver of the bus
    rom,      \* the bytes of the cartridge image read so far, by image offset
    nsteps,   \* CPU::step() calls made so far
    apu,      \* the APU object: sound registers and channel state
    audio,    \* the APU's sample ring and the two threads that share it
    lastRead  \* the last read the driver of the bus made of the cartridge

vars == <<mem, ppu, cpu, clocks, ret, nwrites, rom, nsteps, apu, audio,
          lastRead>>

(***************************************************************************)
(* Bounds of the model.                                                    *)
(***************************************************************************)
\* clocks delivered to the free-running PPU: one frame (70224) and a bit
MaxClocks == 70300

\* bus writes made by the driver of the bus
MaxBusWrites == 2

(***************************************************************************)
(* Fixed-width integer helpers.                                            *)
(***************************************************************************)
RECURSIVE BAnd(_, _)
BAnd(a, b) ==
    IF a = 0 \/ b = 0 THEN 0
    ELSE (a % 2) * (b % 2) + 2 * BAnd(a \div 2, b \div 2)

BOr(a, b) == a + b - BAnd(a, b)

BXor(a, b) == a + b - 2 * BAnd(a, b)

\* bit n of x as a boolean
Bit(x, n) == (x \div (2 ^ n)) % 2 = 1

U8(x) == x % 256

U16(x) == x % 65536

\* x & ~m on a byte
BClear(x, m) == x - BAnd(x, m)

(***************************************************************************)
(* Sparse byte arrays.                                                     *)
(***************************************************************************)
EmptyArr == [i \in {} |-> 0]

Get(arr, i) == IF i \in DOMAIN arr THEN arr[i] ELSE 0

Put(arr, i, v) ==
    IF v = 0
    THEN [j \in DOMAIN arr \ {i} |-> arr[j]]
    ELSE [j \in DOMAIN arr \cup {i} |-> IF j = i THEN v ELSE arr[j]]

(***************************************************************************)
(* Interrupt bits (cpu.h).                                                 *)
(***************************************************************************)
INT_VBLANK == 1
INT_STAT == 2
INT_TIMER == 4
INT_SERIAL == 8
INT_JOYPAD == 16

SCREEN_WIDTH == 160

SCREEN_HEIGHT == 144

(***************************************************************************)
(* Memory: construction and the accessors the PPU uses.                    *)
(***************************************************************************)
\* Memory::Memory: the I/O register file after the constructor
InitIO ==
    (0 :> 207) @@ (15 :> 225) @@ (16 :> 128) @@ (17 :> 191) @@ (18 :> 243)
    @@ (20 :> 191) @@ (22 :> 63) @@ (25 :> 191) @@ (26 :> 127) @@ (27 :> 255)
    @@ (28 :> 159) @@ (30 :> 191) @@ (32 :> 255) @@ (35 :> 191) @@ (36 :> 119)
    @@ (37 :> 243) @@ (38 :> 241) @@ (64 :> 145) @@ (71 :> 252) @@ (72 :> 255)
    @@ (73 :> 255)

MemoryInit ==
    [ romSize |-> 0, extRam |-> EmptyArr, extRamSize |-> 0,
      vram |-> EmptyArr, wram |-> EmptyArr, oam |-> EmptyArr, io |-> InitIO,
      hram |-> EmptyArr, ie |-> 0,
      mbcType |-> 0, romBank |-> 1, ramBank |-> 0, ramEnabled |-> FALSE,
      rtcEnabled |-> FALSE, rtcRegister |-> 0,
      timerCounter |-> 0, divCounter |-> 0,
      dmaActive |-> FALSE, dmaCycles |-> 0, dmaSource |-> 0,
      joypadButtons |-> 255, joypadDpad |-> 255 ]

readIO(s, reg) == Get(s.mem.io, reg)

writeIO(s, reg, val) == [s EXCEPT !.mem.io = Put(@, reg, val)]

getIF(s) == Get(s.mem.io, 15)

setIF(s, val) == [s EXCEPT !.mem.io = Put(@, 15, val)]

getIE(s) == s.mem.ie

\* CPU::handleInterrupts, line 85: memory.setIF(memory.getIF() & ~bit)
clearIF(s, bit) == setIF(s, BClear(getIF(s), bit))

(***************************************************************************)
(* PPU.  The operators take and return a machine record s whose fields     *)
(* mem and ppu are the two objects; PPU holds a reference to Memory.       *)
(***************************************************************************)
\* PPU::reset
PPUReset ==
    [ lcdc |-> 145, stat |-> 0, scy |-> 0, scx |-> 0, ly |-> 0, lyc |-> 0,
      wy |-> 0, wx |-> 0, bgp |-> 252, obp0 |-> 255, obp1 |-> 255,
      scanlineCycles |-> 0, mode |-> 2, frameReady |-> FALSE, windowLine |-> 0 ]

\* PPU::checkSTATInterrupt
checkSTATInterrupt(s) ==
    LET stat == s.ppu.stat
        mode == s.ppu.mode
        interrupt ==
            \/ Bit(stat, 5) /\ mode = 2
            \/ Bit(stat, 4) /\ mode = 1
            \/ Bit(stat, 3) /\ mode = 0
            \/ Bit(stat, 6) /\ Bit(stat, 2)
    IN  IF interrupt THEN setIF(s, BOr(getIF(s), INT_STAT)) ELSE s

\* PPU::setMode
setMode(s, newMode) ==
    checkSTATInterrupt(
        [s EXCEPT !.ppu.mode = newMode,
                  !.ppu.stat = BOr(BAnd(@, 252), BAnd(newMode, 3))])

\* PPU::checkLYC
checkLYC(s) ==
    checkSTATInterrupt(
        [s EXCEPT !.ppu.stat =
            IF s.ppu.ly = s.ppu.lyc THEN BOr(@, 4) ELSE BClear(@, 4)])

\* PPU::writeLCDC that stores the value only.  Used to show that C29
\* depends on the reset made when the LCD is turned off.
writeLCDCStoreOnly(s, val) == [s EXCEPT !.ppu.lcdc = val]

\* PPU::writeLCDC
writeLCDC(s, val) ==
    LET wasEnabled == Bit(s.ppu.lcdc, 7)
        isEnabled == Bit(val, 7)
        s1 == IF wasEnabled /\ ~isEnabled
              THEN setMode([s EXCEPT !.ppu.ly = 0, !.ppu.scanlineCycles = 0], 0)
              ELSE s
    IN  [s1 EXCEPT !.ppu.lcdc = val]

\* PPU::writeSTAT
writeSTAT(s, val) ==
    [s EXCEPT !.ppu.stat = BOr(BAnd(val, 120), BAnd(@, 7))]

\* PPU::writeLY
writeLY(s, val) == [s EXCEPT !.ppu.ly = 0]

\* PPU::readSTAT
readSTAT(s) == BOr(s.ppu.stat, 128)

\* PPU::readLY
readLY(s) == s.ppu.ly

\* PPU::renderWindow: its effect on windowLine (a pixel x with
\* x - (wx - 7) >= 0 exists among 0..159 exactly when wx <= 166)
renderWindow(s) ==
    IF s.ppu.wy > s.ppu.ly THEN s
    ELSE IF s.ppu.wx > 166 THEN s
    ELSE LET windowVisible == \E pixel \in 0 .. (SCREEN_WIDTH - 1) : pixel - (s.ppu.wx - 7) >= 0
         IN  IF windowVisible THEN [s EXCEPT !.ppu.windowLine = @ + 1] ELSE s

\* PPU::renderScanline: the framebuffer is not modelled, the window-line
\* counter is
renderScanline(s) ==
    IF s.ppu.ly >= SCREEN_HEIGHT THEN s
    ELSE IF Bit(s.ppu.lcdc, 5) /\ Bit(s.ppu.lcdc, 0) THEN renderWindow(s)
    ELSE s

\* PPU::step, lines 90-98: the register copies from the I/O file
stepLoadRegs(s) ==
    [s EXCEPT !.ppu.scy = readIO(s, 66), !.ppu.scx = readIO(s, 67),
              !.ppu.lyc = readIO(s, 69), !.ppu.bgp = readIO(s, 71),
              !.ppu.obp0 = readIO(s, 72), !.ppu.obp1 = readIO(s, 73),
              !.ppu.wy = readIO(s, 74), !.ppu.wx = readIO(s, 75),
              !.ppu.lcdc = readIO(s, 64)]

\* PPU::step, case 2 as it would be if the clocks past the 80th were
\* dropped.  Used to show that C27 depends on the remainder being carried.
stepOAMDropping(s) ==
    IF s.ppu.scanlineCycles >= 80
    THEN setMode([s EXCEPT !.ppu.scanlineCycles = 0], 3)
    ELSE s

\* PPU::step, case 2: OAM search
stepOAM(s) ==
    IF s.ppu.scanlineCycles >= 80
    THEN setMode([s EXCEPT !.ppu.scanlineCycles = @ - 80], 3)
    ELSE s

\* PPU::step, case 3: pixel transfer
stepTransfer(s) ==
    IF s.ppu.scanlineCycles >= 172
    THEN setMode(renderScanline([s EXCEPT !.ppu.scanlineCycles = @ - 172]), 0)
    ELSE s

\* PPU::step, case 0 as it would be with an HBlank of 200 clocks
stepHBlankShort(s) ==
    IF s.ppu.scanlineCycles >= 200
    THEN LET s1 == [s EXCEPT !.ppu.scanlineCycles = @ - 200,
                             !.ppu.ly = U8(@ + 1)]
             s2 == IF s1.ppu.ly = 144
                   THEN LET v == setMode(s1, 1)
                            w == setIF(v, BOr(getIF(v), INT_VBLANK))
                        IN  [w EXCEPT !.ppu.frameReady = TRUE,
                                      !.ppu.windowLine = 0]
                   ELSE setMode(s1, 2)
         IN  checkLYC(writeIO(s2, 68, s2.ppu.ly))
    ELSE s

\* PPU::step, case 0: HBlank
stepHBlank(s) ==
    IF s.ppu.scanlineCycles >= 204
    THEN LET s1 == [s EXCEPT !.ppu.scanlineCycles = @ - 204,
                             !.ppu.ly = U8(@ + 1)]
             s2 == IF s1.ppu.ly = 144
                   THEN LET v == setMode(s1, 1)
                            w == setIF(v, BOr(getIF(v), INT_VBLANK))
                        IN  [w EXCEPT !.ppu.frameReady = TRUE,
                                      !.ppu.windowLine = 0]
                   ELSE setMode(s1, 2)
         IN  checkLYC(writeIO(s2, 68, s2.ppu.ly))
    ELSE s

\* PPU::step, case 1 as it would be with the wrap test off by one (ly > 154)
stepVBlankLate(s) ==
    IF s.ppu.scanlineCycles >= 456
    THEN LET s1 == [s EXCEPT !.ppu.scanlineCycles = @ - 456,
                             !.ppu.ly = U8(@ + 1)]
             s2 == IF s1.ppu.ly > 154
                   THEN setMode([s1 EXCEPT !.ppu.ly = 0], 2)
                   ELSE s1
         IN  checkLYC(writeIO(s2, 68, s2.ppu.ly))
    ELSE s

\* PPU::step, case 1: VBlank
stepVBlank(s) ==
    IF s.ppu.scanlineCycles >= 456
    THEN LET s1 == [s EXCEPT !.ppu.scanlineCycles = @ - 456,
                             !.ppu.ly = U8(@ + 1)]
             s2 == IF s1.ppu.ly > 153
                   THEN setMode([s1 EXCEPT !.ppu.ly = 0], 2)
                   ELSE s1
         IN  checkLYC(writeIO(s2, 68, s2.ppu.ly))
    ELSE s

\* PPU::step
PPUstep(s, cycles) ==
    LET s0 == stepLoadRegs(s)
    IN  IF ~Bit(s0.ppu.lcdc, 7) THEN s0
        ELSE LET s1 == [s0 EXCEPT !.ppu.scanlineCycles = @ + cycles]
             IN  CASE s1.ppu.mode = 2 -> stepOAM(s1)
                   [] s1.ppu.mode = 3 -> stepTransfer(s1)
                   [] s1.ppu.mode = 0 -> stepHBlank(s1)
                   [] s1.ppu.mode = 1 -> stepVBlank(s1)
                   [] OTHER -> s1

\* PPU::clearFrameReady
clearFrameReady(s) == [s EXCEPT !.ppu.frameReady = FALSE]

(***************************************************************************)
(* APU: the sound registers and the channel state they drive.              *)
(***************************************************************************)
\* APU::reset (called by APU::APU): registers, wave RAM and the four channel
\* structs zeroed, ch4.lfsr = 0x7FFF, master control on
APUReset ==
    [ registers |-> EmptyArr, waveRam |-> EmptyArr,
      ch1 |-> [ enabled |-> FALSE, frequencyTimer |-> 0, frequency |-> 0,
                duty |-> 0, dutyPos |-> 0, volume |-> 0, volumeInit |-> 0,
                envelopeTimer |-> 0, envelopePeriod |-> 0,
                envelopeAdd |-> FALSE, lengthCounter |-> 0,
                lengthEnabled |-> FALSE, sweepTimer |-> 0, sweepPeriod |-> 0,
                sweepNegate |-> FALSE, sweepShift |-> 0, shadowFreq |-> 0,
                sweepEnabled |-> FALSE ],
      ch2 |-> [ enabled |-> FALSE, frequencyTimer |-> 0, frequency |-> 0,
                duty |-> 0, dutyPos |-> 0, volume |-> 0, volumeInit |-> 0,
                envelopeTimer |-> 0, envelopePeriod |-> 0,
                envelopeAdd |-> FALSE, lengthCounter |-> 0,
                lengthEnabled |-> FALSE ],
      ch3 |-> [ enabled |-> FALSE, dacEnabled |-> FALSE, frequencyTimer |-> 0,
                frequency |-> 0, volume |-> 0, lengthCounter |-> 0,
                lengthEnabled |-> FALSE, samplePos |-> 0 ],
      ch4 |-> [ enabled |-> FALSE, frequencyTimer |-> 0, volume |-> 0,
                volumeInit |-> 0, envelopeTimer |-> 0, envelopePeriod |-> 0,
                envelopeAdd |-> FALSE, lengthCounter |-> 0,
                lengthEnabled |-> FALSE, lfsr |-> 32767, divisor |-> 0,
                shift |-> 0, widthMode |-> FALSE ],
      frameSequencerCycles |-> 0, frameSequencerStep |-> 0,
      sampleAccumulator |-> 0,
      masterEnable |-> TRUE, masterVolume |-> 119, channelPan |-> 255 ]

\* APU::triggerChannel1
triggerChannel1(a) ==
    [a EXCEPT !.ch1 =
        [@ EXCEPT !.enabled = TRUE,
                  !.lengthCounter = IF @ = 0 THEN 64 ELSE @,
                  !.frequencyTimer = (2048 - a.ch1.frequency) * 4,
                  !.envelopeTimer = a.ch1.envelopePeriod,
                  !.volume = a.ch1.volumeInit,
                  !.shadowFreq = a.ch1.frequency,
                  !.sweepTimer = IF a.ch1.sweepPeriod > 0
                                 THEN a.ch1.sweepPeriod ELSE 8,
                  !.sweepEnabled = a.ch1.sweepPeriod > 0 \/ a.ch1.sweepShift > 0,
                  !.dutyPos = 0]]

\* APU::triggerChannel2
triggerChannel2(a) ==
    [a EXCEPT !.ch2 =
        [@ EXCEPT !.enabled = TRUE,
                  !.lengthCounter = IF @ = 0 THEN 64 ELSE @,
                  !.frequencyTimer = (2048 - a.ch2.frequency) * 4,
                  !.envelopeTimer = a.ch2.envelopePeriod,
                  !.volume = a.ch2.volumeInit,
                  !.dutyPos = 0]]

\* APU::triggerChannel3 that enables the channel whatever its DAC.  Used to
\* show that C25 depends on the trigger copying dacEnabled.
triggerChannel3Always(a) ==
    [a EXCEPT !.ch3 =
        [@ EXCEPT !.enabled = TRUE,
                  !.lengthCounter = IF @ = 0 THEN 256 ELSE @,
                  !.frequencyTimer = (2048 - a.ch3.frequency) * 2,
                  !.samplePos = 0]]

\* APU::triggerChannel3
triggerChannel3(a) ==
    [a EXCEPT !.ch3 =
        [@ EXCEPT !.enabled = a.ch3.dacEnabled,
                  !.lengthCounter = IF @ = 0 THEN 256 ELSE @,
                  !.frequencyTimer = (2048 - a.ch3.frequency) * 2,
                  !.samplePos = 0]]

\* the divisors[] table of APU::triggerChannel4
divisors == <<8, 16, 32, 48, 64, 80, 96, 112>>

\* APU::triggerChannel4
triggerChannel4(a) ==
    [a EXCEPT !.ch4 =
        [@ EXCEPT !.enabled = TRUE,
                  !.lengthCounter = IF @ = 0 THEN 64 ELSE @,
                  !.envelopeTimer = a.ch4.envelopePeriod,
                  !.volume = a.ch4.volumeInit,
                  !.lfsr = 32767,
                  !.frequencyTimer =
                      divisors[a.ch4.divisor + 1] * 2 ^ a.ch4.shift]]

\* APU::writeRegister's NR52 case with the channels left as they are when
\* the master switch goes off.  Used to show that C13 depends on the
\* clearing of the four enabled flags.
writeNR52KeepsOn(a, val) == [a EXCEPT !.masterEnable = (BAnd(val, 128) # 0)]

\* APU::writeRegister, case 0x26 (NR52)
writeNR52(a, val) ==
    IF BAnd(val, 128) # 0 THEN [a EXCEPT !.masterEnable = TRUE]
    ELSE [a EXCEPT !.masterEnable = FALSE,
                   !.ch1.enabled = FALSE, !.ch2.enabled = FALSE,
                   !.ch3.enabled = FALSE, !.ch4.enabled = FALSE]

\* APU::writeRegister, the switch on the register (reg in 0x10..0x26)
writeChannelReg(a, reg, val) ==
    CASE reg = 16 ->
            [a EXCEPT !.ch1.sweepPeriod = BAnd(val \div 16, 7),
                      !.ch1.sweepNegate = (BAnd(val, 8) # 0),
                      !.ch1.sweepShift = BAnd(val, 7)]
      [] reg = 17 ->
            [a EXCEPT !.ch1.duty = BAnd(val \div 64, 3),
                      !.ch1.lengthCounter = 64 - BAnd(val, 63)]
      [] reg = 18 ->
            [a EXCEPT !.ch1.volumeInit = BAnd(val \div 16, 15),
                      !.ch1.envelopeAdd = (BAnd(val, 8) # 0),
                      !.ch1.envelopePeriod = BAnd(val, 7),
                      !.ch1.enabled = IF BAnd(val, 248) = 0 THEN FALSE ELSE @]
      [] reg = 19 ->
            [a EXCEPT !.ch1.frequency = BOr(BAnd(@, 1792), val)]
      [] reg = 20 ->
            LET a1 == [a EXCEPT
                         !.ch1.frequency = BOr(BAnd(@, 255), BAnd(val, 7) * 256),
                         !.ch1.lengthEnabled = (BAnd(val, 64) # 0)]
            IN  IF BAnd(val, 128) # 0 THEN triggerChannel1(a1) ELSE a1
      [] reg = 22 ->
            [a EXCEPT !.ch2.duty = BAnd(val \div 64, 3),
                      !.ch2.lengthCounter = 64 - BAnd(val, 63)]
      [] reg = 23 ->
            [a EXCEPT !.ch2.volumeInit = BAnd(val \div 16, 15),
                      !.ch2.envelopeAdd = (BAnd(val, 8) # 0),
                      !.ch2.envelopePeriod = BAnd(val, 7),
                      !.ch2.enabled = IF BAnd(val, 248) = 0 THEN FALSE ELSE @]
      [] reg = 24 ->
            [a EXCEPT !.ch2.frequency = BOr(BAnd(@, 1792), val)]
      [] reg = 25 ->
            LET a1 == [a EXCEPT
                         !.ch2.frequency = BOr(BAnd(@, 255), BAnd(val, 7) * 256),
                         !.ch2.lengthEnabled = (BAnd(val, 64) # 0)]
            IN  IF BAnd(val, 128) # 0 THEN triggerChannel2(a1) ELSE a1
      [] reg = 26 ->
            [a EXCEPT !.ch3.dacEnabled = (BAnd(val, 128) # 0),
                      !.ch3.enabled = IF BAnd(val, 128) = 0 THEN FALSE ELSE @]
      [] reg = 27 -> [a EXCEPT !.ch3.lengthCounter = 256 - val]
      [] reg = 28 -> [a EXCEPT !.ch3.volume = BAnd(val \div 32, 3)]
      [] reg = 29 ->
            [a EXCEPT !.ch3.frequency = BOr(BAnd(@, 1792), val)]
      [] reg = 30 ->
            LET a1 == [a EXCEPT
                         !.ch3.frequency = BOr(BAnd(@, 255), BAnd(val, 7) * 256),
                         !.ch3.lengthEnabled = (BAnd(val, 64) # 0)]
            IN  IF BAnd(val, 128) # 0 THEN triggerChannel3(a1) ELSE a1
      [] reg = 32 -> [a EXCEPT !.ch4.lengthCounter = 64 - BAnd(val, 63)]
      [] reg = 33 ->
            [a EXCEPT !.ch4.volumeInit = BAnd(val \div 16, 15),
                      !.ch4.envelopeAdd = (BAnd(val, 8) # 0),
                      !.ch4.envelopePeriod = BAnd(val, 7),
                      !.ch4.enabled = IF BAnd(val, 248) = 0 THEN FALSE ELSE @]
      [] reg = 34 ->
            [a EXCEPT !.ch4.shift = BAnd(val \div 16, 15),
                      !.ch4.widthMode = (BAnd(val, 8) # 0),
                      !.ch4.divisor = BAnd(val, 7)]
      [] reg = 35 ->
            LET a1 == [a EXCEPT !.ch4.lengthEnabled = (BAnd(val, 64) # 0)]
            IN  IF BAnd(val, 128) # 0 THEN triggerChannel4(a1) ELSE a1
      [] reg = 36 -> [a EXCEPT !.masterVolume = val]
      [] reg = 37 -> [a EXCEPT !.channelPan = val]
      [] reg = 38 -> writeNR52(a, val)
      [] OTHER -> a

\* APU::writeRegister
writeRegister(a, reg, val) ==
    IF reg >= 48 /\ reg <= 63 THEN [a EXCEPT !.waveRam = Put(@, reg - 48, val)]
    ELSE IF reg < 16 \/ reg > 38 THEN a
    ELSE writeChannelReg([a EXCEPT !.registers = Put(@, reg - 16, val)], reg, val)

\* APU::readRegister
readRegister(a, reg) ==
    IF reg >= 48 /\ reg <= 63 THEN Get(a.waveRam, reg - 48)
    ELSE IF reg < 16 \/ reg > 38 THEN 255
    ELSE IF reg = 38
    THEN BOr((IF a.masterEnable THEN 128 ELSE 0)
               + (IF a.ch1.enabled THEN 1 ELSE 0)
               + (IF a.ch2.enabled THEN 2 ELSE 0)
               + (IF a.ch3.enabled THEN 4 ELSE 0)
               + (IF a.ch4.enabled THEN 8 ELSE 0), 112)
    ELSE Get(a.registers, reg - 16)

\* the pairs of floats the sample ring has room for (BUFFER_SIZE is 4096 in
\* apu.h; the ring's logic does not depend on the number)
BUFFER_SIZE == 3

\* the ring as APU::reset leaves it, the emulation thread outside
\* generateSample and the audio thread between two pairs of a callback.
\* A slot holds the number of the sample that was stored in it (0: the
\* initial fill) in place of the float: left slots hold 2k-1, right slots
\* 2k for the k-th sample generated.  stored and delivered are the history
\* of the pairs the producer decided to store and of the pairs the
\* consumer copied out.
AudioInit ==
    [ ringBuffer |-> [i \in 0 .. 2 * BUFFER_SIZE - 1 |-> 0],
      writePos |-> 0, readPos |-> 0,
      ppc |-> "idle", pwp |-> 0, prp |-> 0, nextWp |-> 0, nsamples |-> 0,
      cpc |-> "idle", crp |-> 0, cwp |-> 0, outL |-> 0, outR |-> 0,
      stored |-> <<>>, delivered |-> <<>> ]

(***************************************************************************)
(* Memory: the cartridge, and the bus decoder.                             *)
(***************************************************************************)
\* Memory::loadROM: an image of `size` bytes whose header bytes 0x147 and
\* 0x149 are cartType and ramSize
loadROM(m, size, cartType, ramSize) ==
    IF size >= 328
    THEN [m EXCEPT
            !.romSize = size,
            !.mbcType =
                CASE cartType = 0 -> 0
                  [] cartType \in {1, 2, 3} -> 1
                  [] cartType \in {15, 16, 17, 18, 19} -> 3
                  [] cartType \in {25, 26, 27, 28, 29, 30} -> 5
                  [] OTHER -> 1,
            !.extRamSize =
                CASE ramSize = 2 -> 8192
                  [] ramSize = 3 -> 32768
                  [] ramSize = 4 -> 131072
                  [] ramSize = 5 -> 65536
                  [] OTHER -> 8192]
    ELSE [m EXCEPT !.romSize = size]

\* Memory::handleMBCWrite without the MBC1/MBC3 step that turns bank 0 into
\* bank 1.  Used to show that C20 depends on it.
handleMBCWriteNoClamp(s, addr, val) ==
    CASE s.mem.mbcType = 1 ->
            IF addr < 8192 THEN [s EXCEPT !.mem.ramEnabled = (BAnd(val, 15) = 10)]
            ELSE IF addr < 16384
            THEN [s EXCEPT !.mem.romBank = BAnd(val, 31)]
            ELSE IF addr < 24576 THEN [s EXCEPT !.mem.ramBank = BAnd(val, 3)]
            ELSE s
      [] s.mem.mbcType = 3 ->
            IF addr < 8192 THEN [s EXCEPT !.mem.ramEnabled = (BAnd(val, 15) = 10)]
            ELSE IF addr < 16384
            THEN [s EXCEPT !.mem.romBank = BAnd(val, 127)]
            ELSE IF addr < 24576
            THEN IF val <= 3
                 THEN [s EXCEPT !.mem.ramBank = val, !.mem.rtcEnabled = FALSE]
                 ELSE IF val >= 8 /\ val <= 12
                 THEN [s EXCEPT !.mem.rtcEnabled = TRUE, !.mem.rtcRegister = val]
                 ELSE s
            ELSE s
      [] s.mem.mbcType = 5 ->
            IF addr < 8192 THEN [s EXCEPT !.mem.ramEnabled = (BAnd(val, 15) = 10)]
            ELSE IF addr < 12288
            THEN [s EXCEPT !.mem.romBank = BOr(BAnd(@, 256), val)]
            ELSE IF addr < 16384
            THEN [s EXCEPT !.mem.romBank = BOr(BAnd(@, 255), BAnd(val, 1) * 256)]
            ELSE IF addr < 24576 THEN [s EXCEPT !.mem.ramBank = BAnd(val, 15)]
            ELSE s
      [] OTHER -> s

\* A cartridge whose ROM area is writable: the write lands in the image.
\* Used to show that C33 depends on writes below 0x8000 going to the bank
\* controller only.
handleMBCWriteToRom(s, addr, val) == [s EXCEPT !.rom = Put(@, addr, val)]

\* Memory::handleMBCWrite
handleMBCWrite(s, addr, val) ==
    CASE s.mem.mbcType = 1 ->
            IF addr < 8192 THEN [s EXCEPT !.mem.ramEnabled = (BAnd(val, 15) = 10)]
            ELSE IF addr < 16384
            THEN [s EXCEPT !.mem.romBank =
                     IF BAnd(val, 31) = 0 THEN 1 ELSE BAnd(val, 31)]
            ELSE IF addr < 24576 THEN [s EXCEPT !.mem.ramBank = BAnd(val, 3)]
            ELSE s
      [] s.mem.mbcType = 3 ->
            IF addr < 8192 THEN [s EXCEPT !.mem.ramEnabled = (BAnd(val, 15) = 10)]
            ELSE IF addr < 16384
            THEN [s EXCEPT !.mem.romBank =
                     IF BAnd(val, 127) = 0 THEN 1 ELSE BAnd(val, 127)]
            ELSE IF addr < 24576
            THEN IF val <= 3
                 THEN [s EXCEPT !.mem.ramBank = val, !.mem.rtcEnabled = FALSE]
                 ELSE IF val >= 8 /\ val <= 12
                 THEN [s EXCEPT !.mem.rtcEnabled = TRUE, !.mem.rtcRegister = val]
                 ELSE s
            ELSE s
      [] s.mem.mbcType = 5 ->
            IF addr < 8192 THEN [s EXCEPT !.mem.ramEnabled = (BAnd(val, 15) = 10)]
            ELSE IF addr < 12288
            THEN [s EXCEPT !.mem.romBank = BOr(BAnd(@, 256), val)]
            ELSE IF addr < 16384
            THEN [s EXCEPT !.mem.romBank = BOr(BAnd(@, 255), BAnd(val, 1) * 256)]
            ELSE IF addr < 24576 THEN [s EXCEPT !.mem.ramBank = BAnd(val, 15)]
            ELSE s
      [] OTHER -> s

\* Memory::readJoypad
readJoypad(s) ==
    LET select == BAnd(Get(s.mem.io, 0), 48)
        r0 == 207
        r1 == IF BAnd(select, 32) = 0
              THEN BOr(BAnd(r0, 240), BAnd(s.mem.joypadButtons, 15)) ELSE r0
        r2 == IF BAnd(select, 16) = 0
              THEN BOr(BAnd(r1, 240), BAnd(s.mem.joypadDpad, 15)) ELSE r1
    IN  r2

\* Memory::write, the I/O register cases (reg = addr - 0xFF00).  The
\* registers 0x10-0x3F go to APU::writeRegister and are stored in io[] too.
writeIOReg(s, reg, val) ==
    CASE reg = 0 ->
            [s EXCEPT !.mem.io = Put(@, 0, BOr(BAnd(val, 48), BAnd(Get(@, 0), 207)))]
      [] reg = 4 ->
            [s EXCEPT !.mem.io = Put(@, 4, 0), !.mem.divCounter = 0]
      [] reg = 64 -> writeIO(writeLCDC(s, val), 64, val)
      [] reg = 65 -> writeIO(writeSTAT(s, val), 65, val)
      [] reg = 68 -> writeLY(s, val)
      [] reg = 70 ->
            [s EXCEPT !.mem.dmaActive = TRUE, !.mem.dmaCycles = 0,
                      !.mem.dmaSource = U16(val * 256),
                      !.mem.io = Put(@, 70, val)]
      [] reg >= 16 /\ reg <= 63 ->
            writeIO([s EXCEPT !.apu = writeRegister(@, reg, val)], reg, val)
      [] OTHER -> writeIO(s, reg, val)

\* Memory::write with the echo range left out of the decoder: a write to
\* 0xE000-0xFDFF is dropped.  Used to show that C10 depends on the mirror.
writeNoEcho(s, addr, val) ==
    IF addr < 32768 THEN handleMBCWrite(s, addr, val)
    ELSE IF addr < 40960 THEN [s EXCEPT !.mem.vram = Put(@, addr - 32768, val)]
    ELSE IF addr < 57344 /\ addr >= 49152
    THEN [s EXCEPT !.mem.wram = Put(@, addr - 49152, val)]
    ELSE IF addr < 65024 THEN s
    ELSE IF addr < 65184 THEN [s EXCEPT !.mem.oam = Put(@, addr - 65024, val)]
    ELSE IF addr < 65280 THEN s
    ELSE IF addr < 65408 THEN writeIOReg(s, addr - 65280, val)
    ELSE IF addr < 65535 THEN [s EXCEPT !.mem.hram = Put(@, addr - 65408, val)]
    ELSE [s EXCEPT !.mem.ie = val]

\* Memory::write
write(s, addr, val) ==
    IF addr < 32768 THEN handleMBCWrite(s, addr, val)
    ELSE IF addr < 40960 THEN [s EXCEPT !.mem.vram = Put(@, addr - 32768, val)]
    ELSE IF addr < 49152
    THEN IF s.mem.ramEnabled /\ s.mem.extRamSize # 0
         THEN LET ramAddr == s.mem.ramBank * 8192 + (addr - 40960)
              IN  IF ramAddr < s.mem.extRamSize
                  THEN [s EXCEPT !.mem.extRam = Put(@, ramAddr, val)]
                  ELSE s
         ELSE s
    ELSE IF addr < 57344 THEN [s EXCEPT !.mem.wram = Put(@, addr - 49152, val)]
    ELSE IF addr < 65024 THEN [s EXCEPT !.mem.wram = Put(@, addr - 57344, val)]
    ELSE IF addr < 65184 THEN [s EXCEPT !.mem.oam = Put(@, addr - 65024, val)]
    ELSE IF addr < 65280 THEN s
    ELSE IF addr < 65408 THEN writeIOReg(s, addr - 65280, val)
    ELSE IF addr < 65535 THEN [s EXCEPT !.mem.hram = Put(@, addr - 65408, val)]
    ELSE [s EXCEPT !.mem.ie = val]

\* Memory::read.  romByte is the byte the cartridge image holds at the
\* offset a ROM read lands on.
read(s, addr, romByte) ==
    IF addr < 16384 THEN romByte
    ELSE IF addr < 32768
    THEN LET romAddr == s.mem.romBank * 16384 + (addr - 16384)
         IN  IF romAddr < s.mem.romSize THEN romByte ELSE 255
    ELSE IF addr < 40960 THEN Get(s.mem.vram, addr - 32768)
    ELSE IF addr < 49152
    THEN IF s.mem.ramEnabled /\ s.mem.extRamSize # 0
            /\ s.mem.ramBank * 8192 + (addr - 40960) < s.mem.extRamSize
         THEN Get(s.mem.extRam, s.mem.ramBank * 8192 + (addr - 40960))
         ELSE 255
    ELSE IF addr < 57344 THEN Get(s.mem.wram, addr - 49152)
    ELSE IF addr < 65024 THEN Get(s.mem.wram, addr - 57344)
    ELSE IF addr < 65184 THEN Get(s.mem.oam, addr - 65024)
    ELSE IF addr < 65280 THEN 255
    ELSE IF addr < 65408
    THEN CASE addr - 65280 = 0 -> readJoypad(s)
           [] addr - 65280 = 68 -> readLY(s)
           [] addr - 65280 = 65 -> readSTAT(s)
           [] addr - 65280 >= 16 /\ addr - 65280 <= 63 ->
                readRegister(s.apu, addr - 65280)
           [] OTHER -> Get(s.mem.io, addr - 65280)
    ELSE IF addr < 65535 THEN Get(s.mem.hram, addr - 65408)
    ELSE s.mem.ie

(***************************************************************************)
(* CPU: construction.                                                      *)
(***************************************************************************)
\* no read of the cartridge made yet
NoRead == [addr |-> -1, offset |-> -1, val |-> 0, fault |-> FALSE]

\* A CPU whose registers are zeroed by the constructor and that starts in
\* the boot ROM.  Used to show that C26 depends on the values of CPU::reset.
CPUResetZero ==
    [ a |-> 0, f |-> 0, b |-> 0, c |-> 0, d |-> 0, e |-> 0,
      h |-> 0, l |-> 0, sp |-> 0, pc |-> 0,
      ime |-> FALSE, imeScheduled |-> FALSE, halted |-> FALSE,
      stopped |-> FALSE ]

\* CPU::reset
CPUReset ==
    [ a |-> 1, f |-> 176, b |-> 0, c |-> 19, d |-> 0, e |-> 216,
      h |-> 1, l |-> 77, sp |-> 65534, pc |-> 256,
      ime |-> FALSE, imeScheduled |-> FALSE, halted |-> FALSE,
      stopped |-> FALSE ]

(***************************************************************************)
(* The machine after GameBoy::init and loadROM of a 32 KiB ROM-only image. *)
(***************************************************************************)
Init ==
    /\ mem = loadROM(MemoryInit, 32768, 0, 0)
    /\ ppu = PPUReset
    /\ cpu = CPUReset
    /\ clocks = 0
    /\ ret = [cycles |-> 0, path |-> "none", wasHalted |-> FALSE]
    /\ nwrites = 0
    /\ rom = EmptyArr
    /\ nsteps = 0
    /\ apu = APUReset
    /\ audio = AudioInit
    /\ lastRead = NoRead

Machine == [mem |-> mem, ppu |-> ppu, apu |-> apu]

(***************************************************************************)
(* The PPU driven by step(cycles) calls, with the bus writes a program     *)
(* makes to the PPU's registers in between.                                *)
(***************************************************************************)
\* the clock counts CPU::step returns
StepCycles == {4, 8, 12, 16, 20, 24}

\* values written to LCDC (0xFF40): the post-boot 0x91, and 0x11 (LCD off)
LcdcVals == {145, 17}

\* values written to STAT (0xFF41): the three read-only bits
StatVals == {7}

\* ppu->step(cycles) in GameBoy::run
PPUStep(c) ==
    /\ LET r == PPUstep(Machine, c)
       IN  mem' = r.mem /\ ppu' = r.ppu
    /\ UNCHANGED <<cpu, clocks, ret, nwrites, rom, nsteps, apu, audio, lastRead>>

\* a bus write by the program between two PPU steps
BusWrite(addr, val) ==
    /\ LET r == write(Machine, addr, val)
       IN  mem' = r.mem /\ ppu' = r.ppu
    /\ UNCHANGED <<cpu, clocks, ret, nwrites, rom, nsteps, apu, audio, lastRead>>

NextPPU ==
    \/ \E c \in StepCycles : PPUStep(c)
    \/ \E v \in LcdcVals : BusWrite(65344, v)
    \/ \E v \in StatVals : BusWrite(65345, v)
    \/ BusWrite(65348, 0)

SpecPPU == Init /\ [][NextPPU]_vars

(***************************************************************************)
(* The free-running PPU: step(cycles) calls only, from the reset state,    *)
(* with the clocks delivered counted; the CPU may acknowledge a VBlank     *)
(* request (clearing IF bit 0) in between.                                 *)
(***************************************************************************)
\* ppu->step(cycles) in GameBoy::run, counted
PPUStepCounted(c) ==
    /\ clocks + c <= MaxClocks
    /\ LET r == PPUstep(Machine, c)
       IN  mem' = r.mem /\ ppu' = r.ppu
    /\ clocks' = clocks + c
    /\ UNCHANGED <<cpu, ret, nwrites, rom, nsteps, apu, audio, lastRead>>

\* the interrupt dispatch's clearing of a pending IF bit
AckInterrupt(bit) ==
    /\ BAnd(getIF(Machine), bit) # 0
    /\ mem' = clearIF(Machine, bit).mem
    /\ UNCHANGED <<ppu, cpu, clocks, ret, nwrites, rom, nsteps, apu, audio, lastRead>>

NextPPUFree ==
    \/ \E c \in StepCycles : PPUStepCounted(c)
    \/ AckInterrupt(INT_VBLANK)

SpecPPUFree == Init /\ [][NextPPUFree]_vars

(***************************************************************************)
(* Claims about the PPU.                                                   *)
(***************************************************************************)
\* C1: in every reachable PPU state the low two bits of STAT equal the
\* current mode (STAT & 0x03 == mode), the state right after reset included.
C1_StatLowBitsAreMode == BAnd(ppu.stat, 3) = ppu.mode

\* C2: in every reachable state STAT bit 2 is set if and only if LY == LYC.
C2_CoincidenceFlag == Bit(ppu.stat, 2) <=> (ppu.ly = ppu.lyc)

\* C3: the PPU mode is 1 (VBlank) if and only if LY >= 144, for any
\* interleaving of step calls with bus writes to LY and LCDC.
C3_VBlankIffLyAtLeast144 == (ppu.mode = 1) <=> (ppu.ly >= 144)

\* C4: LY is always in 0..153, for any sequence of step calls interleaved
\* with writes to LY and with LCD disable/enable through LCDC bit 7.
C4_LyInRange == ppu.ly \in 0 .. 153

\* C4's case: the last VBlank line, one step before LY wraps to 0
C4_Witness == ppu.ly = 153 /\ ppu.mode = 1 /\ ppu.scanlineCycles = 452

\* 144 lines of 456 clocks
VBlankClock == 144 * 456

\* C5: from a reset PPU with the LCD on and no register writes, for every
\* split of the clocks into step(c) calls with c in {4,...,24}, the PPU
\* enters mode 1, sets IF bit 0 and sets frame_ready in exactly the first
\* step call after which the clocks delivered reach 65664, and in no earlier
\* call.
C5_VBlankTiming ==
    [][ clocks' # clocks =>
          /\ clocks' < VBlankClock =>
                /\ ppu'.mode # 1
                /\ ~ppu'.frameReady
                /\ Bit(Get(mem'.io, 15), 0) <=> Bit(Get(mem.io, 15), 0)
          /\ (clocks < VBlankClock /\ clocks' >= VBlankClock) =>
                /\ ppu.mode # 1 /\ ppu'.mode = 1
                /\ ~ppu.frameReady /\ ppu'.frameReady
                /\ Bit(Get(mem'.io, 15), 0) ]_vars

\* C5's case: the state right after the step call that crossed 65664
\* clocks, the VBlank request raised
C5_Witness ==
    /\ clocks >= VBlankClock /\ clocks < VBlankClock + 24
    /\ ppu.mode = 1 /\ ppu.ly = 144 /\ ppu.frameReady
    /\ Bit(Get(mem.io, 15), 0)

(***************************************************************************)
(* The bus driven by write calls: one or two addresses of every region of  *)
(* the decoder (its first and its last), and a few byte values.            *)
(***************************************************************************)
\* first and last address of VRAM, work RAM, echo RAM, OAM, high RAM; IE
RamAddrs ==
    {32768, 40959, 49152, 57343, 57344, 65023, 65024, 65183, 65408, 65534,
     65535}

\* MBC control, external RAM, the unusable range, and I/O registers with a
\* side effect: JOYP, DIV, IF, LCDC, STAT, LY, DMA
OtherAddrs ==
    {8192, 40960, 65184, 65279, 65280, 65284, 65295, 65344, 65345, 65348,
     65350}

BusVals == {0, 90, 255}

\* memory->write(addr, val), counted
BusWriteCounted(addr, val) ==
    /\ nwrites < MaxBusWrites
    /\ LET r == write(Machine, addr, val)
       IN  mem' = r.mem /\ ppu' = r.ppu
    /\ nwrites' = nwrites + 1
    /\ UNCHANGED <<cpu, clocks, ret, rom, nsteps, apu, audio, lastRead>>

NextBus ==
    \E addr \in RamAddrs \cup OtherAddrs : \E val \in BusVals :
        BusWriteCounted(addr, val)

SpecBus == Init /\ [][NextBus]_vars

\* the addresses of the regions C10 names: VRAM, work RAM, echo RAM, OAM,
\* high RAM, IE
RoundTripRegion ==
    (32768 .. 40959) \cup (49152 .. 65183) \cup (65408 .. 65535)

\* C10: for every address in VRAM, work RAM, echo RAM, OAM, high RAM and IE
\* and every byte v, read(addr) immediately after write(addr, v) returns v;
\* a write to echo address 0xE000+k is observed by a read of 0xC000+k, and
\* a write to 0xC000+k by a read of 0xE000+k.  Stated of every reachable
\* state of the bus, at the first and last address of each region.
C10_ReadAfterWrite ==
    \A addr \in RamAddrs : \A v \in 0 .. 255 :
        LET after == write(Machine, addr, v)
        IN  /\ addr \in RoundTripRegion
            /\ read(after, addr, 0) = v
            /\ addr \in 57344 .. 65023 => read(after, addr - 8192, 0) = v
            /\ addr \in 49152 .. 56831 => read(after, addr + 8192, 0) = v

\* C10's case: a byte written through the last echo address is held by
\* work RAM and read back through both addresses
C10_Witness ==
    /\ nwrites > 0
    /\ Get(mem.wram, 7679) = 90
    /\ read(Machine, 65023, 0) = 90
    /\ read(Machine, 56831, 0) = 90

(***************************************************************************)
(* CPU: registers, bus access, flags.  The operators below work on a       *)
(* record s with the fields cpu, mem, ppu and rom.                         *)
(***************************************************************************)
CpuMachine == [cpu |-> cpu, mem |-> mem, ppu |-> ppu, rom |-> rom, apu |-> apu]

\* the 16-bit views of the register unions
AF(s) == s.cpu.a * 256 + s.cpu.f
BC(s) == s.cpu.b * 256 + s.cpu.c
DE(s) == s.cpu.d * 256 + s.cpu.e
HL(s) == s.cpu.h * 256 + s.cpu.l

setAF(s, v) == [s EXCEPT !.cpu.a = v \div 256, !.cpu.f = v % 256]
setBC(s, v) == [s EXCEPT !.cpu.b = v \div 256, !.cpu.c = v % 256]
setDE(s, v) == [s EXCEPT !.cpu.d = v \div 256, !.cpu.e = v % 256]
setHL(s, v) == [s EXCEPT !.cpu.h = v \div 256, !.cpu.l = v % 256]

\* the offset into the cartridge image that a read of addr < 0x8000 lands on
romOffset(s, addr) ==
    IF addr < 16384 THEN addr
    ELSE s.mem.romBank * 16384 + (addr - 16384)

\* the image byte at an offset.  A step reads only bytes that are in place
\* (see withImage below), so the value given for the others is never used.
romAt(s, off) == IF off \in DOMAIN s.rom THEN s.rom[off] ELSE 0

\* CPU::read8
read8(s, addr) == read(s, addr, romAt(s, romOffset(s, addr)))

\* CPU::write8
write8(s, addr, val) == write(s, addr, val)

\* CPU::read16
read16(s, addr) == BOr(read8(s, addr), read8(s, U16(addr + 1)) * 256)

\* CPU::write16
write16(s, addr, val) ==
    write8(write8(s, addr, BAnd(val, 255)), U16(addr + 1), val \div 256)

\* CPU::fetch8 and CPU::fetch16: the value read, and the pc left behind
imm8(s) == read8(s, s.cpu.pc)
imm16(s) == read16(s, s.cpu.pc)
skip(s, n) == [s EXCEPT !.cpu.pc = U16(@ + n)]

\* (int8_t) of a byte
int8(v) == IF v >= 128 THEN v - 256 ELSE v

\* CPU::push16 that stores at sp before it moves sp.  Used to show that C23
\* depends on the push storing where the pop reads.
push16AtOldSp(s, val) ==
    [write16(s, s.cpu.sp, val) EXCEPT !.cpu.sp = U16(@ - 2)]

\* CPU::push16
push16(s, val) ==
    LET s1 == [s EXCEPT !.cpu.sp = U16(@ - 2)]
    IN  write16(s1, s1.cpu.sp, val)

\* CPU::pop16: the value popped, and the sp left behind
top16(s) == read16(s, s.cpu.sp)
drop16(s) == [s EXCEPT !.cpu.sp = U16(@ + 2)]

\* CPU::requestInterrupt
requestInterrupt(s, interrupt) == setIF(s, BOr(getIF(s), interrupt))

\* flag helpers of cpu.h
getZ(s) == BAnd(s.cpu.f, 128) # 0
getN(s) == BAnd(s.cpu.f, 64) # 0
getH(s) == BAnd(s.cpu.f, 32) # 0
getC(s) == BAnd(s.cpu.f, 16) # 0

setZ(s, v) == [s EXCEPT !.cpu.f = IF v THEN BOr(@, 128) ELSE BClear(@, 128)]
setN(s, v) == [s EXCEPT !.cpu.f = IF v THEN BOr(@, 64) ELSE BClear(@, 64)]
setH(s, v) == [s EXCEPT !.cpu.f = IF v THEN BOr(@, 32) ELSE BClear(@, 32)]
setC(s, v) == [s EXCEPT !.cpu.f = IF v THEN BOr(@, 16) ELSE BClear(@, 16)]

setFlags(s, z, n, h, c) ==
    [s EXCEPT !.cpu.f = (IF z THEN 128 ELSE 0) + (IF n THEN 64 ELSE 0)
                        + (IF h THEN 32 ELSE 0) + (IF c THEN 16 ELSE 0)]

\* CPU::handleInterrupts, the interrupts that are requested and enabled
pendingOf(s) == BAnd(BAnd(getIF(s), getIE(s)), 31)

\* CPU::handleInterrupts, the if-chain that picks the interrupt to serve
pickInterrupt(pending) ==
    IF BAnd(pending, INT_VBLANK) # 0 THEN INT_VBLANK
    ELSE IF BAnd(pending, INT_STAT) # 0 THEN INT_STAT
    ELSE IF BAnd(pending, INT_TIMER) # 0 THEN INT_TIMER
    ELSE IF BAnd(pending, INT_SERIAL) # 0 THEN INT_SERIAL
    ELSE INT_JOYPAD

\* CPU::handleInterrupts, the handler address set with the bit
handlerOf(bit) ==
    IF bit = INT_VBLANK THEN 64
    ELSE IF bit = INT_STAT THEN 72
    ELSE IF bit = INT_TIMER THEN 80
    ELSE IF bit = INT_SERIAL THEN 88
    ELSE 96

\* CPU::handleInterrupts, the body of if (ime): serve the interrupt `bit`
serve(s, bit) ==
    LET s3 == clearIF([s EXCEPT !.cpu.ime = FALSE], bit)
    IN  [push16(s3, s.cpu.pc) EXCEPT !.cpu.pc = handlerOf(bit)]

\* CPU::handleInterrupts with the if-chain in the opposite order (Joypad
\* first); used to show that C7 depends on the priority
handleInterruptsReversed(s) ==
    LET pending == pendingOf(s)
        bit == IF BAnd(pending, INT_JOYPAD) # 0 THEN INT_JOYPAD
               ELSE IF BAnd(pending, INT_SERIAL) # 0 THEN INT_SERIAL
               ELSE IF BAnd(pending, INT_TIMER) # 0 THEN INT_TIMER
               ELSE IF BAnd(pending, INT_STAT) # 0 THEN INT_STAT
               ELSE INT_VBLANK
    IN  IF pending # 0
        THEN IF s.cpu.ime
             THEN [s |-> serve([s EXCEPT !.cpu.halted = FALSE], bit), cycles |-> 20]
             ELSE [s |-> [s EXCEPT !.cpu.halted = FALSE], cycles |-> 0]
        ELSE [s |-> s, cycles |-> 0]

\* CPU::handleInterrupts with halted cleared only when the interrupt is
\* served; used to show that C9 depends on the wake-up with IME off
handleInterruptsNoWake(s) ==
    LET pending == pendingOf(s)
    IN  IF pending # 0 /\ s.cpu.ime
        THEN [s |-> serve([s EXCEPT !.cpu.halted = FALSE], pickInterrupt(pending)),
              cycles |-> 20]
        ELSE [s |-> s, cycles |-> 0]

\* CPU::handleInterrupts that serves a pending interrupt whether or not IME
\* is set; used to show that C40 depends on the test of ime
handleInterruptsAlways(s) ==
    LET pending == pendingOf(s)
    IN  IF pending # 0
        THEN [s |-> serve([s EXCEPT !.cpu.halted = FALSE], pickInterrupt(pending)),
              cycles |-> 20]
        ELSE [s |-> s, cycles |-> 0]

\* CPU::handleInterrupts: the machine it leaves and the clocks it returns
handleInterrupts(s) ==
    LET pending == pendingOf(s)
    IN  IF pending # 0
        THEN IF s.cpu.ime
             THEN [s |-> serve([s EXCEPT !.cpu.halted = FALSE], pickInterrupt(pending)),
                   cycles |-> 20]
             ELSE [s |-> [s EXCEPT !.cpu.halted = FALSE], cycles |-> 0]
        ELSE [s |-> s, cycles |-> 0]

(***************************************************************************)
(* CPU: ALU and rotate operations.                                         *)
(***************************************************************************)
\* the operand an opcode names in its low three bits: b c d e h l (hl) a
getR(s, i) ==
    CASE i = 0 -> s.cpu.b [] i = 1 -> s.cpu.c [] i = 2 -> s.cpu.d
      [] i = 3 -> s.cpu.e [] i = 4 -> s.cpu.h [] i = 5 -> s.cpu.l
      [] i = 6 -> read8(s, HL(s)) [] OTHER -> s.cpu.a

setR(s, i, v) ==
    CASE i = 0 -> [s EXCEPT !.cpu.b = v] [] i = 1 -> [s EXCEPT !.cpu.c = v]
      [] i = 2 -> [s EXCEPT !.cpu.d = v] [] i = 3 -> [s EXCEPT !.cpu.e = v]
      [] i = 4 -> [s EXCEPT !.cpu.h = v] [] i = 5 -> [s EXCEPT !.cpu.l = v]
      [] i = 6 -> write8(s, HL(s), v) [] OTHER -> [s EXCEPT !.cpu.a = v]

add8(s, val) ==
    LET a == s.cpu.a
        result == a + val
    IN  [setFlags(s, result % 256 = 0, FALSE,
                  (a % 16) + (val % 16) > 15, result > 255)
            EXCEPT !.cpu.a = result % 256]

adc8(s, val) ==
    LET a == s.cpu.a
        carry == IF getC(s) THEN 1 ELSE 0
        result == a + val + carry
    IN  [setFlags(s, result % 256 = 0, FALSE,
                  (a % 16) + (val % 16) + carry > 15, result > 255)
            EXCEPT !.cpu.a = result % 256]

sub8(s, val) ==
    LET a == s.cpu.a
        result == a - val
    IN  [setFlags(s, result % 256 = 0, TRUE, (a % 16) < (val % 16), a < val)
            EXCEPT !.cpu.a = result % 256]

sbc8(s, val) ==
    LET a == s.cpu.a
        carry == IF getC(s) THEN 1 ELSE 0
        result == a - val - carry
    IN  [setFlags(s, result % 256 = 0, TRUE,
                  (a % 16) < (val % 16) + carry, result < 0)
            EXCEPT !.cpu.a = result % 256]

and8(s, val) ==
    LET a == BAnd(s.cpu.a, val)
    IN  [setFlags(s, a = 0, FALSE, TRUE, FALSE) EXCEPT !.cpu.a = a]

or8(s, val) ==
    LET a == BOr(s.cpu.a, val)
    IN  [setFlags(s, a = 0, FALSE, FALSE, FALSE) EXCEPT !.cpu.a = a]

xor8(s, val) ==
    LET a == BXor(s.cpu.a, val)
    IN  [setFlags(s, a = 0, FALSE, FALSE, FALSE) EXCEPT !.cpu.a = a]

cp8(s, val) ==
    LET a == s.cpu.a
    IN  setFlags(s, a = val, TRUE, (a % 16) < (val % 16), a < val)

\* the eight ALU operations in the order of the opcode map
alu8(s, k, val) ==
    CASE k = 0 -> add8(s, val) [] k = 1 -> adc8(s, val)
      [] k = 2 -> sub8(s, val) [] k = 3 -> sbc8(s, val)
      [] k = 4 -> and8(s, val) [] k = 5 -> xor8(s, val)
      [] k = 6 -> or8(s, val) [] OTHER -> cp8(s, val)

\* CPU::inc8 and CPU::dec8 on the operand with index i; for (hl) the
\* opcode reads the byte, changes it and writes it back
inc8(s, i) ==
    LET reg == U8(getR(s, i) + 1)
    IN  setR(setH(setN(setZ(s, reg = 0), FALSE), reg % 16 = 0), i, reg)

dec8(s, i) ==
    LET reg == U8(getR(s, i) + 255)
    IN  setR(setH(setN(setZ(s, reg = 0), TRUE), reg % 16 = 15), i, reg)

add16hl(s, val) ==
    LET hl == HL(s)
        result == hl + val
    IN  setHL(setC(setH(setN(s, FALSE),
                        (hl % 4096) + (val % 4096) > 4095),
                   result > 65535),
              result % 65536)

\* the flags ADD SP,e8 and LD HL,SP+e8 compute, and their 16-bit result;
\* val is the operand byte, (int8_t)val the number added
spFlags(s, val) ==
    setFlags(s, FALSE, FALSE,
             (s.cpu.sp % 16) + (val % 16) > 15,
             (s.cpu.sp % 256) + val > 255)

spPlus(s, val) == (s.cpu.sp + int8(val)) % 65536

addSP(s, val) == [spFlags(s, val) EXCEPT !.cpu.sp = spPlus(s, val)]

\* rotates and shifts: the result byte and the carry flag they set
rlc(s, val) == [r |-> U8(val * 2) + val \div 128, c |-> val >= 128]
rrc(s, val) == [r |-> val \div 2 + (val % 2) * 128, c |-> val % 2 = 1]
rl(s, val) == [r |-> U8(val * 2) + (IF getC(s) THEN 1 ELSE 0), c |-> val >= 128]
rr(s, val) == [r |-> val \div 2 + (IF getC(s) THEN 128 ELSE 0), c |-> val % 2 = 1]
sla(s, val) == [r |-> U8(val * 2), c |-> val >= 128]
sra(s, val) == [r |-> val \div 2 + BAnd(val, 128), c |-> val % 2 = 1]
swap(s, val) == [r |-> (val % 16) * 16 + val \div 16, c |-> FALSE]
srl(s, val) == [r |-> val \div 2, c |-> val % 2 = 1]

rot(s, k, val) ==
    CASE k = 0 -> rlc(s, val) [] k = 1 -> rrc(s, val)
      [] k = 2 -> rl(s, val) [] k = 3 -> rr(s, val)
      [] k = 4 -> sla(s, val) [] k = 5 -> sra(s, val)
      [] k = 6 -> swap(s, val) [] OTHER -> srl(s, val)

\* the flags every rotate and shift sets
rotFlags(s, x) == setFlags(s, x.r = 0, FALSE, FALSE, x.c)

\* CPU::bit
bit(s, b, val) == setH(setN(setZ(s, ~Bit(val, b)), FALSE), TRUE)

\* CPU::res and CPU::set
res(b, val) == BClear(val, 2 ^ b)
set(b, val) == BOr(val, 2 ^ b)

(***************************************************************************)
(* CPU: the interpreter.  An executed opcode yields the machine it leaves  *)
(* and the clocks it returns.  On entry pc is past the opcode byte.        *)
(***************************************************************************)
Done(s, n) == [s |-> s, cycles |-> n, path |-> "execute"]

\* the register pair an opcode names in bits 4-5: bc de hl sp
getR16(s, p) ==
    CASE p = 0 -> BC(s) [] p = 1 -> DE(s) [] p = 2 -> HL(s) [] OTHER -> s.cpu.sp

setR16(s, p, v) ==
    CASE p = 0 -> setBC(s, v) [] p = 1 -> setDE(s, v) [] p = 2 -> setHL(s, v)
      [] OTHER -> [s EXCEPT !.cpu.sp = v]

\* the condition an opcode names in bits 3-4: NZ Z NC C
cond(s, k) ==
    CASE k = 0 -> ~getZ(s) [] k = 1 -> getZ(s) [] k = 2 -> ~getC(s)
      [] OTHER -> getC(s)

\* CPU::executeCB
executeCB(s0) ==
    LET opcode == imm8(s0)
        s == skip(s0, 1)
        reg == opcode % 8
        op == opcode \div 8
        val == getR(s, reg)
        bitNum == (op - 8) % 8
    IN  IF op < 8
        THEN LET x == rot(s, op, val)
             IN  Done(setR(rotFlags(s, x), reg, x.r), IF reg = 6 THEN 16 ELSE 8)
        ELSE IF op < 16
        THEN Done(bit(s, bitNum, val), IF reg = 6 THEN 12 ELSE 8)
        ELSE IF op < 24
        THEN Done(setR(s, reg, res(bitNum, val)), IF reg = 6 THEN 16 ELSE 8)
        ELSE Done(setR(s, reg, set(bitNum, val)), IF reg = 6 THEN 16 ELSE 8)

\* DAA that adjusts the low digit only.  Used to show that C24 depends on
\* the adjustment of the high digit and its carry.
daaLowOnly(s) ==
    LET a == s.cpu.a
        r1 == IF getH(s) \/ a % 16 > 9 THEN a + 6 ELSE a
    IN  setH(setZ([s EXCEPT !.cpu.a = r1 % 256], r1 % 256 = 0), FALSE)

\* CPU::step, case 0x27 (DAA)
daa(s) ==
    LET a == s.cpu.a
        r1 == IF getN(s)
              THEN a - (IF getC(s) THEN 96 ELSE 0) - (IF getH(s) THEN 6 ELSE 0)
              ELSE LET hi == getC(s) \/ a > 153
                       t == IF hi THEN a + 96 ELSE a
                   IN  IF getH(s) \/ t % 16 > 9 THEN t + 6 ELSE t
        s1 == IF ~getN(s) /\ (getC(s) \/ a > 153) THEN setC(s, TRUE) ELSE s
    IN  setH(setZ([s1 EXCEPT !.cpu.a = r1 % 256], r1 % 256 = 0), FALSE)

\* CPU::step, the rotates of A: RLCA RRCA RLA RRA
rotA(s, k) ==
    LET x == rot(s, k, s.cpu.a)
    IN  setZ([rotFlags(s, x) EXCEPT !.cpu.a = x.r], FALSE)

\* CPU::step, JR and JR cc: taken says whether the jump is made
jr(s, taken) ==
    IF taken THEN Done(skip(s, 1 + int8(imm8(s)) + 65536), 12)
    ELSE Done(skip(s, 1), 8)

\* CPU::step, opcodes 0x00-0x3F
exec00(s, op) ==
    LET p == op \div 16
        x == op \div 8
    IN  CASE op = 0 -> Done(s, 4)
          [] op = 16 -> Done(skip([s EXCEPT !.cpu.stopped = TRUE], 1), 4)
          [] op = 8 -> Done(write16(skip(s, 2), imm16(s), s.cpu.sp), 20)
          [] op = 24 -> jr(s, TRUE)
          [] op \in {32, 40, 48, 56} -> jr(s, cond(s, x - 4))
          [] op = 39 -> Done(daa(s), 4)
          [] op = 47 -> Done(setH(setN([s EXCEPT !.cpu.a = 255 - @], TRUE), TRUE), 4)
          [] op = 55 -> Done(setC(setH(setN(s, FALSE), FALSE), TRUE), 4)
          [] op = 63 -> Done(setC(setH(setN(s, FALSE), FALSE), ~getC(s)), 4)
          [] op \in {7, 15, 23, 31} -> Done(rotA(s, x), 4)
          [] op % 16 = 1 -> Done(setR16(skip(s, 2), p, imm16(s)), 12)
          [] op % 16 = 2 ->
                LET s1 == write8(s, getR16(s, IF p = 3 THEN 2 ELSE p), s.cpu.a)
                IN  Done(IF p = 2 THEN setHL(s1, U16(HL(s) + 1))
                         ELSE IF p = 3 THEN setHL(s1, U16(HL(s) + 65535))
                         ELSE s1, 8)
          [] op % 16 = 10 ->
                LET v == read8(s, getR16(s, IF p = 3 THEN 2 ELSE p))
                    s1 == IF p = 2 THEN setHL(s, U16(HL(s) + 1))
                          ELSE IF p = 3 THEN setHL(s, U16(HL(s) + 65535))
                          ELSE s
                IN  Done([s1 EXCEPT !.cpu.a = v], 8)
          [] op % 16 = 3 -> Done(setR16(s, p, U16(getR16(s, p) + 1)), 8)
          [] op % 16 = 11 -> Done(setR16(s, p, U16(getR16(s, p) + 65535)), 8)
          [] op % 16 = 9 -> Done(add16hl(s, getR16(s, p)), 8)
          [] op % 8 = 4 -> Done(inc8(s, x), IF x = 6 THEN 12 ELSE 4)
          [] op % 8 = 5 -> Done(dec8(s, x), IF x = 6 THEN 12 ELSE 4)
          [] OTHER -> Done(setR(skip(s, 1), x, imm8(s)), IF x = 6 THEN 12 ELSE 8)

\* CPU::step, opcodes 0x40-0x7F: HALT and LD r8, r8
exec40(s, op) ==
    LET dst == (op - 64) \div 8
        src == op % 8
    IN  IF op = 118 THEN Done([s EXCEPT !.cpu.halted = TRUE], 4)
        ELSE Done(setR(s, dst, getR(s, src)),
                  IF dst = 6 \/ src = 6 THEN 8 ELSE 4)

\* CPU::step, opcodes 0x80-0xBF: ALU A, r8
exec80(s, op) ==
    Done(alu8(s, (op - 128) \div 8, getR(s, op % 8)),
         IF op % 8 = 6 THEN 8 ELSE 4)

\* CPU::step, case 0xF1 (POP AF) with the mask left out; used to show that
\* C6 depends on the mask
popAFUnmasked(s) == setAF(drop16(s), top16(s))

\* CPU::step, case 0xF1 (POP AF)
popAF(s) == setAF(drop16(s), BAnd(top16(s), 65520))

\* CPU::step, CALL and CALL cc: taken says whether the call is made
call(s, taken) ==
    LET addr == imm16(s)
        s1 == skip(s, 2)
    IN  IF taken THEN Done([push16(s1, s1.cpu.pc) EXCEPT !.cpu.pc = addr], 24)
        ELSE Done(s1, 12)

\* CPU::step, RET and RETI
return(s) == [drop16(s) EXCEPT !.cpu.pc = top16(s)]

\* an undefined opcode that hangs the CPU, as the hardware does.  Used to
\* show that C22 depends on the default case doing nothing.
undefinedOpHangs(s) == Done([s EXCEPT !.cpu.halted = TRUE], 4)

\* An undefined opcode that takes no clocks.  Used to show that C36 depends
\* on the default case returning 4.
undefinedOpFree(s) == Done(s, 0)

\* CPU::step, the default case of the switch: an undefined opcode
undefinedOp(s) == Done(s, 4)

\* CPU::step, opcodes 0xC0-0xFF
execC0(s, op) ==
    LET k == (op - 192) \div 8
    IN  CASE op \in {192, 200, 208, 216} ->
                IF cond(s, k) THEN Done(return(s), 20) ELSE Done(s, 8)
          [] op = 193 -> Done(setBC(drop16(s), top16(s)), 12)
          [] op = 209 -> Done(setDE(drop16(s), top16(s)), 12)
          [] op = 225 -> Done(setHL(drop16(s), top16(s)), 12)
          [] op = 241 -> Done(popAF(s), 12)
          [] op \in {194, 202, 210, 218} ->
                IF cond(s, k) THEN Done([s EXCEPT !.cpu.pc = imm16(s)], 16)
                ELSE Done(skip(s, 2), 12)
          [] op = 195 -> Done([s EXCEPT !.cpu.pc = imm16(s)], 16)
          [] op \in {196, 204, 212, 220} -> call(s, cond(s, k))
          [] op = 197 -> Done(push16(s, BC(s)), 16)
          [] op = 213 -> Done(push16(s, DE(s)), 16)
          [] op = 229 -> Done(push16(s, HL(s)), 16)
          [] op = 245 -> Done(push16(s, AF(s)), 16)
          [] op % 8 = 6 -> Done(alu8(skip(s, 1), k, imm8(s)), 8)
          [] op % 8 = 7 -> Done([push16(s, s.cpu.pc) EXCEPT !.cpu.pc = op - 199], 16)
          [] op = 201 -> Done(return(s), 16)
          [] op = 217 -> Done([return(s) EXCEPT !.cpu.ime = TRUE], 16)
          [] op = 205 -> call(s, TRUE)
          [] op = 203 -> [executeCB(s) EXCEPT !.cycles = @ + 4]
          [] op = 224 -> Done(write8(skip(s, 1), 65280 + imm8(s), s.cpu.a), 12)
          [] op = 240 -> Done([skip(s, 1) EXCEPT !.cpu.a = read8(s, 65280 + imm8(s))], 12)
          [] op = 226 -> Done(write8(s, 65280 + s.cpu.c, s.cpu.a), 8)
          [] op = 242 -> Done([s EXCEPT !.cpu.a = read8(s, 65280 + s.cpu.c)], 8)
          [] op = 234 -> Done(write8(skip(s, 2), imm16(s), s.cpu.a), 16)
          [] op = 250 -> Done([skip(s, 2) EXCEPT !.cpu.a = read8(s, imm16(s))], 16)
          [] op = 233 -> Done([s EXCEPT !.cpu.pc = HL(s)], 4)
          [] op = 249 -> Done([s EXCEPT !.cpu.sp = HL(s)], 8)
          [] op = 232 -> Done(addSP(skip(s, 1), imm8(s)), 16)
          [] op = 248 ->
                Done(setHL(spFlags(skip(s, 1), imm8(s)), spPlus(s, imm8(s))), 12)
          [] op = 243 -> Done([s EXCEPT !.cpu.ime = FALSE], 4)
          [] op = 251 -> Done([s EXCEPT !.cpu.imeScheduled = TRUE], 4)
          [] OTHER -> undefinedOp(s)

\* CPU::step, the switch on the opcode
execute(s, op) ==
    IF op < 64 THEN exec00(s, op)
    ELSE IF op < 128 THEN exec40(s, op)
    ELSE IF op < 192 THEN exec80(s, op)
    ELSE execC0(s, op)

\* CPU::step: the machine it leaves, the clocks it returns, and the return
\* statement taken
CPUstep(s) ==
    LET s0 == IF s.cpu.imeScheduled
              THEN [s EXCEPT !.cpu.ime = TRUE, !.cpu.imeScheduled = FALSE]
              ELSE s
        h == handleInterrupts(s0)
    IN  IF h.cycles > 0
        THEN [s |-> h.s, cycles |-> h.cycles, path |-> "interrupt"]
        ELSE IF h.s.cpu.halted
        THEN [s |-> h.s, cycles |-> 4, path |-> "halted"]
        ELSE \* opcode = fetch8(); switch (opcode), on the machine t left by
             \* handleInterrupts
             CHOOSE x \in {execute(skip(t, 1), read8(t, t.cpu.pc)) : t \in {h.s}} : TRUE

(***************************************************************************)
(* The cartridge image as the CPU meets it.  A step reads the image at the *)
(* opcode, at its operand bytes and where the opcode reads data; a byte    *)
(* of the image that no earlier step has read is chosen there.             *)
(***************************************************************************)
\* the number of operand bytes the opcode fetches and uses
immLen(op) ==
    IF op \in {1, 17, 33, 49, 8, 194, 202, 210, 218, 195, 196, 204, 212, 220,
               205, 234, 250}
    THEN 2
    ELSE IF \/ (op < 64 /\ op % 8 = 6)
            \/ op \in {24, 32, 40, 48, 56, 203, 224, 240, 232, 248}
            \/ (op >= 192 /\ op % 8 = 6)
    THEN 1
    ELSE 0

\* the addresses the opcode at pc reads as data; s has the opcode and its
\* operand bytes in place
dataReads(s, op) ==
    LET pc1 == U16(s.cpu.pc + 1)
        n8 == read8(s, pc1)
        n16 == read16(s, pc1)
        stack == {s.cpu.sp, U16(s.cpu.sp + 1)}
    IN  CASE op = 10 -> {BC(s)}
          [] op = 26 -> {DE(s)}
          [] op \in {42, 58, 52, 53} -> {HL(s)}
          [] op \in 64 .. 191 /\ op % 8 = 6 /\ op # 118 -> {HL(s)}
          [] op = 203 /\ n8 % 8 = 6 -> {HL(s)}
          [] op \in {193, 209, 225, 241, 201, 217} -> stack
          [] op \in {192, 200, 208, 216} ->
                IF cond(s, (op - 192) \div 8) THEN stack ELSE {}
          [] op = 240 -> {65280 + n8}
          [] op = 242 -> {65280 + s.cpu.c}
          [] op = 250 -> {n16}
          [] OTHER -> {}

\* the addresses a step writes; s is the machine the step starts from, with
\* the opcode and its operand bytes in place
dataWrites(s, op) ==
    LET pc1 == U16(s.cpu.pc + 1)
        n8 == read8(s, pc1)
        n16 == read16(s, pc1)
        stack == {U16(s.cpu.sp + 65535), U16(s.cpu.sp + 65534)}
    IN  CASE op = 2 -> {BC(s)}
          [] op = 18 -> {DE(s)}
          [] op \in {34, 50, 52, 53, 54, 112, 113, 114, 115, 116, 117, 119} -> {HL(s)}
          [] op = 203 /\ n8 % 8 = 6 /\ (n8 < 64 \/ n8 >= 128) -> {HL(s)}
          [] op = 8 -> {n16, U16(n16 + 1)}
          [] op \in {197, 213, 229, 245, 205} -> stack
          [] op >= 192 /\ op % 8 = 7 -> stack
          [] op \in {196, 204, 212, 220} ->
                IF cond(s, (op - 192) \div 8) THEN stack ELSE {}
          [] op = 224 -> {65280 + n8}
          [] op = 226 -> {65280 + s.cpu.c}
          [] op = 234 -> {n16}
          [] OTHER -> {}

\* the registers of the APU; the CPU specifications below leave programs
\* that touch them out, to keep their alphabet small
ApuRegs == 65296 .. 65343

\* the machines s becomes when the image byte behind addr is read: the same
\* machine if the read lands outside the image or on a byte already read
readImage(s, addr, vals) ==
    IF addr < 32768 /\ romOffset(s, addr) < s.mem.romSize
       /\ romOffset(s, addr) \notin DOMAIN s.rom
    THEN {[s EXCEPT !.rom = @ @@ (romOffset(s, addr) :> v)] : v \in vals}
    ELSE {s}

\* the operand bytes the images of the model hold behind an opcode
immLo(op) ==
    CASE op = 203 -> 0 .. 255
      [] op = 49 -> {16}
      [] op = 62 -> {30, 224}
      [] op = 224 -> {255}
      [] op = 240 -> {15}
      [] immLen(op) = 2 -> {0}
      [] OTHER -> {15, 241}

immHi(op) == IF op = 49 THEN {255} ELSE {192}

\* the bytes the images of the model hold where an opcode reads data
DataVals == {0, 255}

RECURSIVE readImageAll(_, _, _)
readImageAll(s, addrs, vals) ==
    IF addrs = {} THEN {s}
    ELSE LET a == CHOOSE x \in addrs : TRUE
         IN  UNION {readImageAll(t, addrs \ {a}, vals) : t \in readImage(s, a, vals)}

\* the machines a step can start from once the image bytes it reads are
\* chosen: the opcode from ops, then the operand bytes, then the data
withImage(s, ops) ==
    LET pc == s.cpu.pc
    IN  UNION {
          LET op == read8(s1, pc)
              n == immLen(op)
              s2s == IF n >= 1 THEN readImage(s1, U16(pc + 1), immLo(op)) ELSE {s1}
          IN  UNION {
                LET s3s == IF n = 2 THEN readImage(s2, U16(pc + 2), immHi(op))
                           ELSE {s2}
                IN  UNION {readImageAll(s3, dataReads(s3, op), DataVals) : s3 \in s3s}
                : s2 \in s2s}
          : s1 \in readImage(s, pc, ops)}

\* how the step from s returns: after dispatching an interrupt, halted, or
\* after executing an opcode
pathOf(s) ==
    LET h == handleInterrupts([s EXCEPT !.cpu.ime = @ \/ s.cpu.imeScheduled])
    IN  IF h.cycles > 0 THEN "interrupt"
        ELSE IF h.s.cpu.halted THEN "halted"
        ELSE "execute"

\* whether the step from s touches a register of the APU
touchesAPU(s) ==
    IF pathOf(s) = "interrupt"
    THEN {U16(s.cpu.sp + 65535), U16(s.cpu.sp + 65534)} \cap ApuRegs # {}
    ELSE IF pathOf(s) = "halted" THEN FALSE
    ELSE LET op == read8(s, s.cpu.pc)
         IN  ({s.cpu.pc, U16(s.cpu.pc + 1), U16(s.cpu.pc + 2)}
              \cup dataReads(s, op) \cup dataWrites(s, op)) \cap ApuRegs # {}

(***************************************************************************)
(* The CPU driven by step() calls and interrupt requests.                  *)
(***************************************************************************)
\* CPU steps made by the programs of the control alphabet
MaxSteps == 5

\* CPU steps made by the programs over all opcodes
MaxAllSteps == 2

\* NOP, LD SP,nn, LD A,n, HALT, RETI, LDH (n),A, DI, EI
ControlOps == {0, 49, 62, 118, 217, 224, 243, 251}

AllOps == 0 .. 255

\* cpu->step(), on an image whose unread bytes are drawn from ops
CPUStep(ops, bound) ==
    /\ nsteps < bound
    /\ \E s \in (IF pathOf(CpuMachine) = "execute"
                 THEN withImage(CpuMachine, ops) ELSE {CpuMachine}) :
          /\ ~touchesAPU(s)
          /\ \E x \in {CPUstep(s)} :
                 /\ cpu' = x.s.cpu
                 /\ mem' = x.s.mem
                 /\ ppu' = x.s.ppu
                 /\ rom' = x.s.rom
                 /\ apu' = x.s.apu
                 /\ ret' = [cycles |-> x.cycles, path |-> x.path,
                            wasHalted |-> cpu.halted]
    /\ nsteps' = nsteps + 1
    /\ UNCHANGED <<clocks, nwrites, audio, lastRead>>

\* cpu->requestInterrupt(bit), by a device
RequestInterrupt(b) ==
    /\ BAnd(getIF(Machine), b) = 0
    /\ mem' = requestInterrupt(Machine, b).mem
    /\ UNCHANGED <<ppu, cpu, clocks, ret, nwrites, rom, nsteps, apu, audio, lastRead>>

NextCPU ==
    \/ CPUStep(ControlOps, MaxSteps)
    \/ \E b \in {INT_STAT, INT_TIMER} : RequestInterrupt(b)

SpecCPU == Init /\ [][NextCPU]_vars

NextCpuAll == CPUStep(AllOps, MaxAllSteps)

SpecCpuAll == Init /\ [][NextCpuAll]_vars

(***************************************************************************)
(* Claims about the CPU.  A step of the model with nsteps' = nsteps + 1 is *)
(* one step() call.                                                        *)
(***************************************************************************)
\* C6: in every reachable CPU state the low nibble of F is zero; no
\* instruction, POP AF with any stack contents included, sets bits 0-3 of F.
C6_FLowNibbleZero == cpu.f % 16 = 0

\* C6's case: PUSH BC (BC = 0x0013) then POP AF; the byte 0x13 is on the
\* stack and F holds 0x10
C6_Witness ==
    /\ nsteps = 2
    /\ 257 \in DOMAIN rom /\ rom[257] = 241
    /\ Get(mem.hram, 124) = 19
    /\ cpu.a = 0 /\ cpu.f = 16 /\ cpu.sp = 65534

\* a step() call that finds an enabled interrupt requested and IME set
\* (IME as step() sees it, after a scheduled enable has been applied)
DispatchCase ==
    /\ nsteps' = nsteps + 1
    /\ pendingOf(CpuMachine) # 0
    /\ (cpu.ime \/ cpu.imeScheduled)

\* the lowest-numbered bit set in IF & IE & 0x1F
DispatchedBit ==
    CHOOSE b \in {1, 2, 4, 8, 16} :
        /\ BAnd(pendingOf(CpuMachine), b) # 0
        /\ \A c \in {1, 2, 4, 8, 16} : BAnd(pendingOf(CpuMachine), c) # 0 => b <= c

\* what C7 says of such a step, the value left in IF aside: IME cleared,
\* the PC pushed, PC at the vector of the dispatched bit, halted cleared,
\* no opcode executed, 20 clocks returned
DispatchEffect ==
    LET vector == CASE DispatchedBit = 1 -> 64 [] DispatchedBit = 2 -> 72
                    [] DispatchedBit = 4 -> 80 [] DispatchedBit = 8 -> 88
                    [] OTHER -> 96
        pushed == write16(clearIF(CpuMachine, DispatchedBit),
                          U16(cpu.sp + 65534), cpu.pc)
    IN  /\ ~cpu'.ime /\ ~cpu'.imeScheduled /\ ~cpu'.halted
        /\ cpu'.pc = vector
        /\ cpu'.sp = U16(cpu.sp + 65534)
        /\ mem' = pushed.mem /\ ppu' = pushed.ppu
        /\ \A r \in {"a", "f", "b", "c", "d", "e", "h", "l", "stopped"} :
               cpu'[r] = cpu[r]
        /\ rom' = rom
        /\ ret'.cycles = 20 /\ ret'.path = "interrupt"

C8_EIDelay ==
    [][(/\ nsteps' = nsteps + 1
        /\ ~cpu.ime /\ ~cpu.imeScheduled /\ pendingOf(CpuMachine) # 0
        /\ ret'.path = "execute" /\ cpu'.imeScheduled)
       => pathOf(CpuMachine') = "execute"]_vars

\* a step() call made while the CPU is halted
HaltedStep == nsteps' = nsteps + 1 /\ cpu.halted

\* the CPU idles: 4 clocks, no register and no memory changed
HaltIdle ==
    /\ ret'.cycles = 4 /\ ret'.path = "halted" /\ cpu'.halted
    /\ \A r \in {"a", "f", "b", "c", "d", "e", "h", "l", "sp", "pc"} :
           cpu'[r] = cpu[r]
    /\ mem' = mem /\ ppu' = ppu /\ rom' = rom

\* the CPU wakes up: the step does not idle, and dispatches if IME is set
HaltWake ==
    /\ ret'.path # "halted"
    /\ (cpu.ime \/ cpu.imeScheduled) => (ret'.path = "interrupt" /\ ~cpu'.halted)

\* C9 as stated: a halted CPU idles for as long as IF & IE = 0 and wakes up
\* in the first step in which IF & IE # 0.
C9_HaltAsStated ==
    [][HaltedStep =>
          IF BAnd(getIF(Machine), getIE(Machine)) = 0 THEN HaltIdle
          ELSE HaltWake]_vars

\* C9, amended: a halted CPU idles for as long as IF & IE & 0x1F = 0 and
\* wakes up in the first step in which IF & IE & 0x1F # 0.
C9_Halt ==
    [][HaltedStep =>
          IF pendingOf(CpuMachine) = 0 THEN HaltIdle ELSE HaltWake]_vars

\* C9's case: a halted CPU was woken by a request and dispatched it
C9_Witness ==
    /\ ret.wasHalted /\ ret.path = "interrupt" /\ ~cpu.halted
    /\ BAnd(getIF(Machine), INT_VBLANK) # 0

(***************************************************************************)
(* OAM DMA: write(0xFF46, page) starts it, Memory::updateDMA(cycles) is    *)
(* called after every CPU step with the clocks the step took.              *)
(***************************************************************************)
\* the copy loop of Memory::updateDMA for the indices lo .. hi - 1, in
\* ascending order: oam[i] = read(dmaSource + i).  The range is split in two
\* halves that are copied one after the other.
RECURSIVE dmaCopy(_, _, _)
dmaCopy(s, lo, hi) ==
    IF lo >= hi THEN s
    ELSE IF hi = lo + 1
    THEN [s EXCEPT !.mem.oam = Put(@, lo, read8(s, U16(s.mem.dmaSource + lo)))]
    ELSE CHOOSE x \in
            {dmaCopy(t, (lo + hi) \div 2, hi) :
                t \in {dmaCopy(s, lo, (lo + hi) \div 2)}} : TRUE

\* Memory::updateDMA with the copy made only once more than 640 clocks have
\* gone by.  Used to show that C11 fixes the clock at which the copy is made.
updateDMALate(s, cycles) ==
    IF ~s.mem.dmaActive THEN s
    ELSE LET s1 == [s EXCEPT !.mem.dmaCycles = @ + cycles]
         IN  IF s1.mem.dmaCycles > 640
             THEN [dmaCopy(s1, 0, 160) EXCEPT !.mem.dmaActive = FALSE]
             ELSE s1

\* Memory::updateDMA
updateDMA(s, cycles) ==
    IF ~s.mem.dmaActive THEN s
    ELSE LET s1 == [s EXCEPT !.mem.dmaCycles = @ + cycles]
         IN  IF s1.mem.dmaCycles >= 640
             THEN [dmaCopy(s1, 0, 160) EXCEPT !.mem.dmaActive = FALSE]
             ELSE s1

\* clocks handed to updateDMA after one write to 0xFF46
MaxDmaClocks == 664

\* writes to 0xFF46 in one run
MaxDmaStarts == 2

\* source pages: VRAM, external RAM (disabled: reads 0xFF), WRAM, OAM itself,
\* the I/O page (joypad, PPU and APU registers through their read paths)
DmaPages == {128, 160, 192, 254, 255}

\* bytes a program changes while a DMA is pending: first and last byte of
\* the WRAM source page, and the first byte of OAM
DmaPokes == {49152, 49311, 65024}

DmaCycles == {4, 8, 12, 16, 20, 24}

\* write(0xFF46, page); clocks restarts: here it counts the clocks handed to
\* updateDMA since the last write to 0xFF46, and nwrites counts those writes
DmaStart(page) ==
    /\ nwrites < MaxDmaStarts
    /\ mem' = write(Machine, 65350, page).mem
    /\ clocks' = 0
    /\ nwrites' = nwrites + 1
    /\ UNCHANGED <<ppu, cpu, ret, rom, nsteps, apu, audio, lastRead>>

\* a write of the program to the source page or to OAM
DmaPoke(addr, val) ==
    /\ read8(CpuMachine, addr) # val
    /\ mem' = write(Machine, addr, val).mem
    /\ UNCHANGED <<ppu, cpu, clocks, ret, nwrites, rom, nsteps, apu, audio, lastRead>>

\* memory->updateDMA(cycles)
UpdateDMA(c) ==
    /\ clocks + c <= MaxDmaClocks
    /\ mem' = updateDMA(CpuMachine, c).mem
    /\ clocks' = clocks + c
    /\ UNCHANGED <<ppu, cpu, ret, nwrites, rom, nsteps, apu, audio, lastRead>>

NextDMA ==
    \/ \E page \in DmaPages : DmaStart(page)
    \/ \E addr \in DmaPokes, val \in {0, 90} : DmaPoke(addr, val)
    \/ \E c \in DmaCycles : UpdateDMA(c)

SpecDMA == Init /\ [][NextDMA]_vars

\* the page last written to 0xFF46
dmaPage == Get(mem.io, 70)

\* C11: in an updateDMA call (the only step that advances clocks) after a
\* write to 0xFF46, OAM is left alone while the clocks accumulated since the
\* write stay below 640; the call that brings them to 640 or more makes
\* oam[i] the value read(page << 8 + i) had when the call was made, for every
\* i in 0..159, and ends the DMA; calls after that one leave OAM unchanged.
\* The DMA is active exactly while the accumulated clocks are below 640.
C11_DmaCopy ==
    [][clocks' > clocks =>
         /\ IF nwrites > 0 /\ clocks < 640 /\ clocks' >= 640
            THEN \A i \in 0 .. 159 :
                    Get(mem'.oam, i) = read8(CpuMachine, dmaPage * 256 + i)
            ELSE mem'.oam = mem.oam
         /\ mem'.dmaActive = (nwrites > 0 /\ clocks' < 640)]_vars

\* a DMA from the WRAM page has completed and brought a byte the program
\* stored there into OAM
C11_Witness ==
    /\ nwrites > 0 /\ clocks >= 640 /\ ~mem.dmaActive
    /\ dmaPage = 192 /\ Get(mem.oam, 159) = 90

(***************************************************************************)
(* Timer: Memory::updateTimer(cycles) is called after every CPU step with  *)
(* the clocks the step took.                                               *)
(***************************************************************************)
\* Memory::getTimerFrequency: the clocks of one TIMA tick
getTimerFrequency(s) ==
    CASE BAnd(Get(s.mem.io, 7), 3) = 0 -> 1024
      [] BAnd(Get(s.mem.io, 7), 3) = 1 -> 16
      [] BAnd(Get(s.mem.io, 7), 3) = 2 -> 64
      [] OTHER -> 256

\* the DIV loop of Memory::updateTimer as it would be if an increment
\* threw the clocks left over away.  Used to show that C34 depends on the
\* remainder being carried from call to call.
RECURSIVE divLoopDropping(_)
divLoopDropping(s) ==
    IF s.mem.divCounter >= 256
    THEN divLoopDropping([s EXCEPT !.mem.divCounter = 0,
                                   !.mem.io = Put(@, 4, U8(Get(@, 4) + 1))])
    ELSE s

\* the DIV loop of Memory::updateTimer: while (divCounter >= 256)
RECURSIVE divLoop(_)
divLoop(s) ==
    IF s.mem.divCounter >= 256
    THEN divLoop([s EXCEPT !.mem.divCounter = @ - 256,
                           !.mem.io = Put(@, 4, U8(Get(@, 4) + 1))])
    ELSE s

\* one TIMA tick: increment, and on overflow reload from TMA and request
\* the timer interrupt
timaTick(s) ==
    LET s1 == [s EXCEPT !.mem.io = Put(@, 5, U8(Get(@, 5) + 1))]
    IN  IF Get(s1.mem.io, 5) = 0
        THEN [s1 EXCEPT !.mem.io =
                 Put(Put(@, 5, Get(@, 6)), 15, BOr(Get(@, 15), INT_TIMER))]
        ELSE s1

\* the TIMA loop of Memory::updateTimer in which a tick throws the clocks
\* left over away (timerCounter = 0).  Used to show that C12 depends on the
\* remainder being carried from call to call.
RECURSIVE timaLoopDropping(_, _)
timaLoopDropping(s, freq) ==
    IF s.mem.timerCounter >= freq
    THEN timaLoopDropping(timaTick([s EXCEPT !.mem.timerCounter = 0]), freq)
    ELSE s

\* the TIMA loop of Memory::updateTimer: while (timerCounter >= freq)
RECURSIVE timaLoop(_, _)
timaLoop(s, freq) ==
    IF s.mem.timerCounter >= freq
    THEN timaLoop(timaTick([s EXCEPT !.mem.timerCounter = @ - freq]), freq)
    ELSE s

\* Memory::updateTimer
updateTimer(s, cycles) ==
    LET s1 == divLoop([s EXCEPT !.mem.divCounter = @ + cycles])
    IN  IF BAnd(Get(s1.mem.io, 7), 4) = 0 THEN s1
        ELSE timaLoop([s1 EXCEPT !.mem.timerCounter = @ + cycles],
                      getTimerFrequency(s1))

\* clocks handed to updateTimer in one run: one tick of the slowest timer
\* and a bit
MaxTimerClocks == 1060

\* writes that set the timer up, made before the first updateTimer call
MaxTimerWrites == 3

\* TAC: enabled at each of the four rates, and disabled
TacVals == {4, 5, 6, 7, 1}

\* TIMA and TMA
TimaVals == {254, 255, 66}

TimerCycles == {4, 8, 12, 16, 20, 24}

\* write(0xFF05 / 0xFF06 / 0xFF07, val) by the program, before the clocks run
TimerWrite(reg, val) ==
    /\ clocks = 0
    /\ nwrites < MaxTimerWrites
    /\ readIO(Machine, reg) # val
    /\ mem' = write(Machine, 65280 + reg, val).mem
    /\ nwrites' = nwrites + 1
    /\ UNCHANGED <<ppu, cpu, clocks, ret, rom, nsteps, apu, audio, lastRead>>

\* memory->updateTimer(cycles); clocks counts the clocks handed over
UpdateTimer(c) ==
    /\ clocks + c <= MaxTimerClocks
    /\ mem' = updateTimer(Machine, c).mem
    /\ clocks' = clocks + c
    /\ UNCHANGED <<ppu, cpu, ret, nwrites, rom, nsteps, apu, audio, lastRead>>

NextTimer ==
    \/ \E val \in TacVals : TimerWrite(7, val)
    \/ \E reg \in {5, 6}, val \in TimaVals : TimerWrite(reg, val)
    \/ \E c \in TimerCycles : UpdateTimer(c)
    \/ AckInterrupt(INT_TIMER)

SpecTimer == Init /\ [][NextTimer]_vars

\* the period the claim gives for TAC[1:0]
TimerPeriod(tac) ==
    CASE tac % 4 = 0 -> 1024 [] tac % 4 = 1 -> 16
      [] tac % 4 = 2 -> 64 [] OTHER -> 256

\* TIMA and the timer's IF bit after k increments, each overflow from 0xFF
\* reloading TIMA from tma
RECURSIVE TimaAfter(_, _, _, _)
TimaAfter(tima, tma, irq, k) ==
    IF k = 0 THEN [tima |-> tima, irq |-> irq]
    ELSE IF tima = 255 THEN TimaAfter(tma, tma, TRUE, k - 1)
    ELSE TimaAfter(tima + 1, tma, irq, k - 1)

\* C12: in an updateTimer call (the only step that advances clocks) that
\* brings the clocks delivered since the timer counter was 0 from N to N',
\* with TAC bit 2 set, TIMA is incremented floor(N'/period) - floor(N/period)
\* times, so floor(N/period) times over the run whatever the split; an
\* increment from 0xFF reloads TIMA from TMA and sets IF bit 2.  With TAC
\* bit 2 clear the call changes neither TIMA nor IF.
C12_TimerTicks ==
    [][clocks' > clocks =>
         LET tac == Get(mem.io, 7)
             k == (clocks' \div TimerPeriod(tac)) - (clocks \div TimerPeriod(tac))
             after == TimaAfter(Get(mem.io, 5), Get(mem.io, 6),
                                Bit(Get(mem.io, 15), 2), k)
         IN  IF Bit(tac, 2)
             THEN /\ Get(mem'.io, 5) = after.tima
                  /\ Bit(Get(mem'.io, 15), 2) = after.irq
                  /\ BClear(Get(mem'.io, 15), 4) = BClear(Get(mem.io, 15), 4)
             ELSE Get(mem'.io, 5) = Get(mem.io, 5)
                  /\ Get(mem'.io, 15) = Get(mem.io, 15)]_vars

\* the claim's example: TAC = 0x05, TIMA = 0xFF, TMA = 0x42, and 16 clocks
\* later TIMA = 0x42 with IF bit 2 set
C12_Witness ==
    /\ clocks = 16 /\ Get(mem.io, 7) = 5 /\ Get(mem.io, 6) = 66
    /\ Get(mem.io, 5) = 66 /\ Bit(Get(mem.io, 15), 2)
    /\ mem.timerCounter = 0

(***************************************************************************)
(* The sound registers driven by the program's bus writes.                 *)
(***************************************************************************)
\* sound register writes in one run
MaxApuWrites == 3

\* NR11, NR12, NR14, NR24, NR30, NR34, NR44, NR52 and the first wave byte
ApuWriteRegs == {17, 18, 20, 25, 26, 30, 35, 38, 48}

\* nothing set; bit 7 (trigger, DAC on, master on); bit 7 with envelope bits
ApuWriteVals == {0, 128, 243}

\* write(0xFF00 + reg, val) by the program
ApuWrite(reg, val) ==
    /\ nwrites < MaxApuWrites
    /\ LET r == write(Machine, 65280 + reg, val)
       IN  mem' = r.mem /\ apu' = r.apu
    /\ nwrites' = nwrites + 1
    /\ UNCHANGED <<ppu, cpu, clocks, ret, rom, nsteps, audio, lastRead>>

NextAPU == \E reg \in ApuWriteRegs, val \in ApuWriteVals : ApuWrite(reg, val)

SpecAPU == Init /\ [][NextAPU]_vars

\* a channel's enabled flag is set
anyChannelEnabled(a) ==
    a.ch1.enabled \/ a.ch2.enabled \/ a.ch3.enabled \/ a.ch4.enabled

\* C13: from every reachable state, a write to NR52 (0xFF26) of any value
\* with bit 7 clear leaves all four channel-enabled flags false, and a read
\* of NR52 right after it returns 0x70 (bit 7 = 0, bits 0-3 = 0).
C13_MasterOffSilences ==
    \A val \in 0 .. 127 :
        LET s == write(Machine, 65318, val)
        IN  /\ ~anyChannelEnabled(s.apu)
            /\ ~s.apu.masterEnable
            /\ read(s, 65318, 0) = 112

\* channel 1 was triggered (its frequency timer was loaded) and the master
\* switch has been turned off since: no channel is on and NR52 reads 0x70
C13_Witness ==
    /\ apu.ch1.frequencyTimer # 0
    /\ BAnd(Get(apu.registers, 22), 128) = 0
    /\ ~apu.masterEnable /\ ~anyChannelEnabled(apu)
    /\ read(Machine, 65318, 0) = 112

\* NR11, NR21, NR31, NR41
LengthRegs == {17, 22, 27, 32}

\* C14: while master_enable is false, a write to a register NR10-NR25 other
\* than the length registers changes nothing in the APU (no channel state,
\* no stored register byte), and NR52 reads bits 0-3 = 0.
C14_WritesIgnoredWhileOff ==
    ~apu.masterEnable =>
        /\ \A reg \in (16 .. 37) \ LengthRegs : \A val \in ApuWriteVals :
              write(Machine, 65280 + reg, val).apu = apu
        /\ BAnd(read(Machine, 65318, 0), 15) = 0

(***************************************************************************)
(* The sample ring: APU::generateSample on the emulation thread and        *)
(* APU::audioCallback on the audio thread, one step per load or store of   *)
(* writePos, readPos (std::atomic<int>, sequentially consistent) or of a   *)
(* ring slot (a plain float).  Both branches of generateSample (silence    *)
(* when the master switch is off, the channel mix otherwise) go through    *)
(* the same loads and stores; the mixed value itself is not modelled.      *)
(***************************************************************************)
\* samples generated in one run
MaxSamples == 6

\* (pos + 2) % (BUFFER_SIZE * 2)
nextPos(pos) == (pos + 2) % (BUFFER_SIZE * 2)

\* generateSample's test with the answer always yes: a sample is stored
\* even when the ring is full.  Used to show that C15 depends on the drop.
hasSpaceAlways(nextWp, rp) == TRUE

\* generateSample: if (nextWp != rp)
hasSpace(nextWp, rp) == nextWp # rp

\* audioCallback's test with the answer always yes: a pair is read even
\* when the ring is empty.  Used to show that C16 depends on the underrun
\* branch.
hasDataAlways(rp, wp) == TRUE

\* audioCallback: if (rp != wp)
hasData(rp, wp) == rp # wp

\* generateSample: int wp = writePos.load()
GenLoadWp ==
    /\ audio.ppc = "idle"
    /\ audio.nsamples < MaxSamples
    /\ audio' = [audio EXCEPT !.pwp = audio.writePos,
                              !.nsamples = @ + 1, !.ppc = "loadRp"]
    /\ UNCHANGED <<mem, ppu, cpu, clocks, ret, nwrites, rom, nsteps, apu, lastRead>>

\* generateSample: readPos.load(), nextWp, and the test for space; with no
\* space the sample is dropped and generateSample returns
GenLoadRp ==
    /\ audio.ppc = "loadRp"
    /\ audio' =
          IF hasSpace(nextPos(audio.pwp), audio.readPos)
          THEN [audio EXCEPT !.prp = audio.readPos,
                             !.nextWp = nextPos(audio.pwp),
                             !.stored = Append(@, <<2 * audio.nsamples - 1,
                                                    2 * audio.nsamples>>),
                             !.ppc = "left"]
          ELSE [audio EXCEPT !.prp = audio.readPos,
                             !.nextWp = nextPos(audio.pwp), !.ppc = "idle"]
    /\ UNCHANGED <<mem, ppu, cpu, clocks, ret, nwrites, rom, nsteps, apu, lastRead>>

\* generateSample: ringBuffer[wp] = left
GenLeft ==
    /\ audio.ppc = "left"
    /\ audio' = [audio EXCEPT !.ringBuffer[audio.pwp] = 2 * audio.nsamples - 1,
                              !.ppc = "right"]
    /\ UNCHANGED <<mem, ppu, cpu, clocks, ret, nwrites, rom, nsteps, apu, lastRead>>

\* generateSample: ringBuffer[wp + 1] = right
GenRight ==
    /\ audio.ppc = "right"
    /\ audio' = [audio EXCEPT !.ringBuffer[audio.pwp + 1] = 2 * audio.nsamples,
                              !.ppc = "store"]
    /\ UNCHANGED <<mem, ppu, cpu, clocks, ret, nwrites, rom, nsteps, apu, lastRead>>

\* generateSample: writePos.store(nextWp)
GenStore ==
    /\ audio.ppc = "store"
    /\ audio' = [audio EXCEPT !.writePos = audio.nextWp, !.ppc = "idle"]
    /\ UNCHANGED <<mem, ppu, cpu, clocks, ret, nwrites, rom, nsteps, apu, lastRead>>

\* audioCallback, one turn of the loop: int rp = readPos.load()
CbLoadRp ==
    /\ audio.cpc = "idle"
    /\ audio' = [audio EXCEPT !.crp = audio.readPos, !.cpc = "loadWp"]
    /\ UNCHANGED <<mem, ppu, cpu, clocks, ret, nwrites, rom, nsteps, apu, lastRead>>

\* audioCallback: int wp = writePos.load(), and the test for data; with no
\* data the output pair is silence and the turn ends
CbLoadWp ==
    /\ audio.cpc = "loadWp"
    /\ audio' =
          IF hasData(audio.crp, audio.writePos)
          THEN [audio EXCEPT !.cwp = audio.writePos, !.cpc = "left"]
          ELSE [audio EXCEPT !.cwp = audio.writePos, !.outL = 0, !.outR = 0,
                             !.cpc = "idle"]
    /\ UNCHANGED <<mem, ppu, cpu, clocks, ret, nwrites, rom, nsteps, apu, lastRead>>

\* audioCallback: output[i] = ringBuffer[rp]
CbLeft ==
    /\ audio.cpc = "left"
    /\ audio' = [audio EXCEPT !.outL = audio.ringBuffer[audio.crp],
                              !.cpc = "right"]
    /\ UNCHANGED <<mem, ppu, cpu, clocks, ret, nwrites, rom, nsteps, apu, lastRead>>

\* audioCallback: output[i + 1] = ringBuffer[rp + 1]
CbRight ==
    /\ audio.cpc = "right"
    /\ audio' = [audio EXCEPT !.outR = audio.ringBuffer[audio.crp + 1],
                              !.cpc = "store"]
    /\ UNCHANGED <<mem, ppu, cpu, clocks, ret, nwrites, rom, nsteps, apu, lastRead>>

\* audioCallback: readPos.store((rp + 2) % (BUFFER_SIZE * 2)); the pair is
\* in the output buffer
CbStore ==
    /\ audio.cpc = "store"
    /\ audio' = [audio EXCEPT !.readPos = nextPos(audio.crp),
                              !.delivered = Append(@, <<audio.outL, audio.outR>>),
                              !.cpc = "idle"]
    /\ UNCHANGED <<mem, ppu, cpu, clocks, ret, nwrites, rom, nsteps, apu, lastRead>>

NextRing ==
    \/ GenLoadWp \/ GenLoadRp \/ GenLeft \/ GenRight \/ GenStore
    \/ CbLoadRp \/ CbLoadWp \/ CbLeft \/ CbRight \/ CbStore

SpecRing == Init /\ [][NextRing]_vars

\* the producer is about to write, or has half written, the pair at pwp
producerInSlots == audio.ppc \in {"left", "right"}

\* the consumer is about to read, or has half read, the pair at crp
consumerInSlots == audio.cpc \in {"left", "right"}

\* C15: in every interleaving of the two threads' loads and stores, the
\* pairs the consumer has delivered are the first pairs the producer stored,
\* in the producer's order (so none twice and none torn), the pair the
\* consumer is about to deliver is the next one stored, and the two threads
\* are never inside the same pair of slots at once (no slot is read before
\* it is written, or overwritten before it is read).
C15_RingIsFifo ==
    /\ Len(audio.delivered) <= Len(audio.stored)
    /\ audio.delivered = SubSeq(audio.stored, 1, Len(audio.delivered))
    /\ audio.cpc = "store" =>
          /\ Len(audio.delivered) < Len(audio.stored)
          /\ <<audio.outL, audio.outR>> = audio.stored[Len(audio.delivered) + 1]
    /\ ~(producerInSlots /\ consumerInSlots /\ audio.pwp = audio.crp)

\* the ring has wrapped around (more pairs delivered than it has slots for)
\* and a sample was dropped on the way
C15_Witness ==
    /\ Len(audio.delivered) > BUFFER_SIZE
    /\ audio.ppc = "idle" /\ Len(audio.stored) < audio.nsamples

\* pairs published by the producer and not yet released by the consumer
pairsHeld ==
    (Len(audio.stored) - (IF audio.ppc \in {"left", "right", "store"} THEN 1 ELSE 0))
    - Len(audio.delivered)

\* C16: writePos and readPos are always even and within [0, 2*BUFFER_SIZE),
\* and the ring holds between 0 and BUFFER_SIZE-1 pairs, as many as the
\* positions are apart; when generateSample finds the ring full (writePos
\* advanced by one pair equals readPos) it returns without writing a slot
\* or writePos; when the callback finds the ring empty (readPos equals
\* writePos) it outputs a zero pair and leaves readPos unchanged.
C16_RingBounds ==
    /\ [](/\ audio.writePos \in {2 * k : k \in 0 .. BUFFER_SIZE - 1}
          /\ audio.readPos \in {2 * k : k \in 0 .. BUFFER_SIZE - 1}
          /\ pairsHeld \in 0 .. BUFFER_SIZE - 1
          /\ 2 * pairsHeld
               = (audio.writePos - audio.readPos + 2 * BUFFER_SIZE)
                   % (2 * BUFFER_SIZE))
    /\ [][/\ (audio.ppc = "loadRp" /\ audio'.ppc # "loadRp") =>
               IF nextPos(audio.writePos) = audio.readPos
               THEN /\ audio'.ppc = "idle"
                    /\ audio'.ringBuffer = audio.ringBuffer
                    /\ audio'.writePos = audio.writePos
                    /\ audio'.stored = audio.stored
               ELSE audio'.ppc = "left"
          /\ (audio.cpc = "loadWp" /\ audio'.cpc # "loadWp") =>
               IF audio.readPos = audio.writePos
               THEN /\ audio'.cpc = "idle"
                    /\ audio'.outL = 0 /\ audio'.outR = 0
                    /\ audio'.readPos = audio.readPos
                    /\ audio'.delivered = audio.delivered
               ELSE audio'.cpc = "left"]_vars

\* the full ring dropped a sample and the empty ring has given silence since
C16_Witness ==
    /\ audio.ppc = "idle" /\ Len(audio.stored) < audio.nsamples
    /\ audio.cpc = "idle" /\ audio.readPos = audio.writePos
    /\ Len(audio.delivered) = Len(audio.stored)
    /\ audio.outL = 0 /\ audio.outR = 0
    /\ audio.nsamples = MaxSamples

\* C17: right after construction (no write made yet), the bus reads
\* 0xFF00 = 0xCF (JOYP), 0xFF10 = 0x80 (NR10), 0xFF40 = 0x91 (LCDC) and
\* 0xFF47 = 0xFC (BGP).
C17_PostBootReads ==
    nwrites = 0 =>
        /\ read(Machine, 65280, 0) = 207
        /\ read(Machine, 65296, 0) = 128
        /\ read(Machine, 65344, 0) = 145
        /\ read(Machine, 65351, 0) = 252

(***************************************************************************)
(* Joypad: key events from the host (GameBoy::handleInput) and the         *)
(* program's writes to and reads of 0xFF00.                                *)
(***************************************************************************)
\* Memory::setJoypadState
setJoypadState(s, buttons, dpad) ==
    [s EXCEPT !.mem.joypadButtons = buttons, !.mem.joypadDpad = dpad]

\* GameBoy::handleInput for a key-down (pressed) or key-up event.  key 0..3
\* are right, left, up, down; 4..7 are A, B, select, start; 8 is any other
\* key.  The function's static buttons and dpad hold what was last handed to
\* setJoypadState, which is what the Memory object holds.
handleInput(s, key, pressed) ==
    LET mask == 2 ^ (key % 4)
        upd(v) == IF pressed THEN BClear(v, mask) ELSE BOr(v, mask)
        dpad == IF key < 4 THEN upd(s.mem.joypadDpad) ELSE s.mem.joypadDpad
        buttons == IF key \in 4 .. 7 THEN upd(s.mem.joypadButtons)
                   ELSE s.mem.joypadButtons
        s1 == setJoypadState(s, buttons, dpad)
    IN  IF pressed THEN requestInterrupt(s1, INT_JOYPAD) ELSE s1

\* the select values a program writes to 0xFF00
SelectVals == {0, 16, 32, 48}

\* handleInput(event)
HandleInput(key, pressed) ==
    /\ mem' = handleInput(Machine, key, pressed).mem
    /\ UNCHANGED <<ppu, cpu, clocks, ret, nwrites, rom, nsteps, apu, audio, lastRead>>

\* write(0xFF00, val) by the program
JoypadSelect(val) ==
    /\ mem' = write(Machine, 65280, val).mem
    /\ UNCHANGED <<ppu, cpu, clocks, ret, nwrites, rom, nsteps, apu, audio, lastRead>>

NextJoypad ==
    \/ \E key \in 0 .. 8, pressed \in BOOLEAN : HandleInput(key, pressed)
    \/ \E val \in SelectVals \cup {255} : JoypadSelect(val)

SpecJoypad == Init /\ [][NextJoypad]_vars

\* C18: in every joypad state, after a write of a select value (0x00, 0x10,
\* 0x20, 0x30) to 0xFF00 a read of 0xFF00 returns bits 6-7 set and bits
\* 4-5 as written.
C18_SelectBitsReadBack ==
    \A sel \in SelectVals :
        LET v == read(write(Machine, 65280, sel), 65280, 0)
        IN  BAnd(v, 192) = 192 /\ BAnd(v, 48) = sel

\* C19: with both rows selected (bits 4 and 5 of 0xFF00 written as 0), the
\* low nibble read from 0xFF00 is the AND of the button nibble and the
\* d-pad nibble (both active low).
C19_BothRowsAnd ==
    BAnd(Get(mem.io, 0), 48) = 0 =>
        BAnd(read(Machine, 65280, 0), 15)
            = BAnd(BAnd(mem.joypadButtons, 15), BAnd(mem.joypadDpad, 15))

(***************************************************************************)
(* Cartridges with a bank controller: the program's writes to              *)
(* 0x0000-0x7FFF.                                                          *)
(***************************************************************************)
\* header byte 0x147: ROM only, MBC1, MBC3 (with RTC and RAM), MBC5, and a
\* value Memory::loadROM does not know (treated as MBC1)
CartTypes == {0, 1, 19, 25, 252}

\* the machine after loadROM of a 1 MiB image with 32 KiB of RAM
InitMBC ==
    /\ \E cartType \in CartTypes : mem = loadROM(MemoryInit, 1048576, cartType, 3)
    /\ ppu = PPUReset
    /\ cpu = CPUReset
    /\ clocks = 0
    /\ ret = [cycles |-> 0, path |-> "none", wasHalted |-> FALSE]
    /\ nwrites = 0
    /\ rom = EmptyArr
    /\ nsteps = 0
    /\ apu = APUReset
    /\ audio = AudioInit
    /\ lastRead = NoRead

\* first and last address of each range the controllers decode
MbcAddrs == {0, 8191, 8192, 12287, 12288, 16383, 16384, 24575, 24576, 32767}

\* values whose masked bank number is 0 for MBC1 (0x20, 0x60, 0x80), for
\* MBC3 (0x80), plain 0, and bank numbers, RAM enable and RTC selects
MbcVals == {0, 1, 8, 10, 31, 32, 96, 127, 128, 255}

\* write(addr, val) by the program, addr < 0x8000
MbcWrite(addr, val) ==
    /\ mem' = write(Machine, addr, val).mem
    /\ UNCHANGED <<ppu, cpu, clocks, ret, nwrites, rom, nsteps, apu, audio, lastRead>>

NextMBC == \E addr \in MbcAddrs, val \in MbcVals : MbcWrite(addr, val)

SpecMBC == InitMBC /\ [][NextMBC]_vars

\* C20: with an MBC1 or MBC3 cartridge romBank >= 1 in every reachable
\* state and after one more write of any byte to 0x0000-0x7FFF, and a write
\* to 0x2000-0x3FFF whose masked value is 0 selects bank 1; with an MBC5
\* cartridge whose bank bit 8 is clear, a write of 0 to 0x2000-0x2FFF
\* selects bank 0.
C20_RomBankAtLeastOne ==
    /\ mem.mbcType \in {1, 3} =>
          /\ mem.romBank >= 1
          /\ \A addr \in MbcAddrs : \A val \in 0 .. 255 :
                write(Machine, addr, val).mem.romBank >= 1
          /\ \A addr \in {8192, 16383} : \A val \in {0, 128} :
                write(Machine, addr, val).mem.romBank = 1
    /\ (mem.mbcType = 5 /\ mem.romBank < 256) =>
          \A addr \in {8192, 12287} : write(Machine, addr, 0).mem.romBank = 0

\* an MBC5 cartridge on which the program has selected bank 0
C20_Witness == mem.mbcType = 5 /\ mem.romBank = 0

(***************************************************************************)
(* Reads of the cartridge windows 0x0000-0x7FFF, on images of several      *)
(* sizes and with the bank register moved by the program.                  *)
(***************************************************************************)
\* sizes of the loaded file: empty, shorter than the header, one bank, two
\* banks, four banks
RomSizes == {0, 256, 16384, 32768, 65536}

\* first and last address of the two windows, and the addresses around the
\* end of the 256-byte image
RomReadAddrs == {0, 255, 256, 16383, 16384, 32767}

\* the values the program gives the bank register
RomBanks == {1, 2, 4, 31}

\* the image offsets those addresses stand for
RomReadOffsets ==
    {a \in RomReadAddrs : a < 16384}
    \cup {b * 16384 + (a - 16384) : b \in RomBanks,
                                   a \in {x \in RomReadAddrs : x >= 16384}}

\* the machine after loadROM of an image of one of the sizes (header byte
\* 0x147: ROM only or MBC1; 0x149: 0); of the image's bytes the ones the
\* reads below can reach are given
InitRom ==
    /\ \E size \in RomSizes, cartType \in {0, 1} :
          /\ mem = loadROM(MemoryInit, size, cartType, 0)
          /\ rom = [off \in {o \in RomReadOffsets : o < size} |-> 90 + (off % 7)]
    /\ ppu = PPUReset
    /\ cpu = CPUReset
    /\ clocks = 0
    /\ ret = [cycles |-> 0, path |-> "none", wasHalted |-> FALSE]
    /\ nwrites = 0
    /\ nsteps = 0
    /\ apu = APUReset
    /\ audio = AudioInit
    /\ lastRead = NoRead

\* what the build can yield for rom[addr] with addr >= rom.size(), an
\* access outside the vector's storage (undefined behaviour): some byte
\* that lies behind the storage, or a fault
OutOfBoundsBytes == {0, 90, 255}

\* Memory::read of an address below 0x8000: the outcomes, each with the
\* image as far as it is known afterwards
romRead(s, addr) ==
    IF addr < 16384 /\ addr >= s.mem.romSize
    THEN {[rom |-> s.rom, val |-> v, fault |-> FALSE] : v \in OutOfBoundsBytes}
         \cup {[rom |-> s.rom, val |-> 0, fault |-> TRUE]}
    ELSE {[rom |-> t.rom, val |-> read8(t, addr), fault |-> FALSE] :
             t \in readImage(s, addr, DataVals)}

\* read(addr) by the CPU, addr < 0x8000
RomRead(addr) ==
    /\ ~lastRead.fault
    /\ \E r \in romRead(CpuMachine, addr) :
          /\ rom' = r.rom
          /\ lastRead' = [addr |-> addr, offset |-> romOffset(CpuMachine, addr),
                          val |-> r.val, fault |-> r.fault]
    /\ UNCHANGED <<mem, ppu, cpu, clocks, ret, nwrites, nsteps, apu, audio>>

\* write(0x2000, val) by the program: the bank register of an MBC1
RomBankWrite(val) ==
    /\ ~lastRead.fault
    /\ mem.romBank # (IF val = 0 THEN 1 ELSE val)
    /\ mem' = write(Machine, 8192, val).mem
    /\ UNCHANGED <<ppu, cpu, clocks, ret, nwrites, rom, nsteps, apu, audio,
                   lastRead>>

NextRom ==
    \/ \E addr \in RomReadAddrs : RomRead(addr)
    \/ \E val \in RomBanks : RomBankWrite(val)

SpecRom == InitRom /\ [][NextRom]_vars

\* C21: a read below 0x8000 whose effective offset into the image (addr in
\* the fixed window, romBank * 0x4000 + addr - 0x4000 in the switchable one)
\* lies past the end of the image returns 0xFF without touching the image
\* out of bounds.
C21_PastEndReads255 ==
    (lastRead.addr >= 0 /\ lastRead.offset >= mem.romSize) =>
        (~lastRead.fault /\ lastRead.val = 255)

(***************************************************************************)
(* Programs with undefined opcodes: LDH (0xFF),A (which sets IE), HALT, EI *)
(* and the eleven opcodes the DMG leaves undefined.                        *)
(***************************************************************************)
UndefOps == {211, 219, 221, 227, 228, 235, 236, 237, 244, 252, 253}

\* CPU steps in one run of those programs
MaxUndefSteps == 4

NextUndef == CPUStep({224, 118, 251} \cup UndefOps, MaxUndefSteps)

SpecUndef == Init /\ [][NextUndef]_vars

\* a CPU::step call that fetched an undefined opcode
UndefStep ==
    /\ nsteps' = nsteps + 1
    /\ ret'.path = "execute"
    /\ read8([CpuMachine EXCEPT !.rom = rom'], cpu.pc) \in UndefOps

\* C22 as stated: such a step returns 4 clocks, advances PC by 1 and changes
\* no other register or flag, not IME, not the halted state, and no byte of
\* memory.
C22_UndefinedAsStated ==
    [][UndefStep =>
          /\ ret'.cycles = 4
          /\ cpu' = [cpu EXCEPT !.pc = U16(cpu.pc + 1)]
          /\ mem' = mem /\ ppu' = ppu /\ apu' = apu]_vars

\* C22, amended: as stated, except for what CPU::step does before it
\* fetches: an EI pending from the instruction before takes effect (IME
\* becomes true, the pending flag is cleared), and a halted CPU with an
\* interrupt pending and IME off leaves the halted state.
C22_Undefined ==
    [][UndefStep =>
          /\ ret'.cycles = 4
          /\ cpu' = [cpu EXCEPT !.pc = U16(cpu.pc + 1),
                                !.ime = cpu.ime \/ cpu.imeScheduled,
                                !.imeScheduled = FALSE,
                                !.halted = FALSE]
          /\ mem' = mem /\ ppu' = ppu /\ apu' = apu]_vars

\* 0xD3 was fetched at 0x0100 and left everything but PC alone, and the
\* step after it ran the next opcode (EI at 0x0101)
C22_Witness ==
    /\ nsteps = 2 /\ Get(rom, 256) = 211 /\ Get(rom, 257) = 251
    /\ cpu.pc = 258 /\ cpu.imeScheduled /\ ~cpu.ime /\ ~cpu.halted
    /\ cpu.a = 1 /\ cpu.f = 176 /\ cpu.sp = 65534
    /\ ret.cycles = 4 /\ ret.path = "execute"

(***************************************************************************)
(* PUSH r16 ; POP r16 at 0x0100, from a CPU whose SP and register pairs    *)
(* are inputs.                                                             *)
(***************************************************************************)
\* SP before the push.  Targets SP-1, SP-2 in high RAM (0xFFFE, 0xFFFF,
\* 0xFF82), in work RAM (0xC002, 0xE000), half in work RAM (0xC001), in
\* VRAM (0x8002), in ROM (0x0002), on IE and high RAM (0x0000)
StackPointers == {65534, 65535, 65410, 49154, 57344, 49153, 32770, 2, 0}

\* the value of the register pairs; F takes its high nibble only, the low
\* nibble of F being zero in every state of the CPU
PairVals == {0, 4848, 42330, 65520}

\* the opcodes of PUSH and POP for BC, DE, HL, AF
pushOp == <<197, 213, 229, 245>>

popOp == <<193, 209, 225, 241>>

InitStack ==
    /\ mem = loadROM(MemoryInit, 32768, 0, 0)
    /\ ppu = PPUReset
    /\ \E sp \in StackPointers, v \in PairVals :
          cpu = [CPUReset EXCEPT !.sp = sp,
                                 !.a = v \div 256, !.f = BAnd(v % 256, 240),
                                 !.b = v \div 256, !.c = v % 256,
                                 !.d = v \div 256, !.e = v % 256,
                                 !.h = v \div 256, !.l = v % 256]
    /\ \E r \in 1 .. 4 : rom = (256 :> pushOp[r]) @@ (257 :> popOp[r])
    /\ clocks = 0
    /\ ret = [cycles |-> 0, path |-> "none", wasHalted |-> FALSE]
    /\ nwrites = 0
    /\ nsteps = 0
    /\ apu = APUReset
    /\ audio = AudioInit
    /\ lastRead = NoRead

\* the two steps
MaxStackSteps == 2

NextStack == CPUStep(AllOps, MaxStackSteps)

SpecStack == InitStack /\ [][NextStack]_vars

\* addr lies in work RAM or in high RAM
inWorkOrHighRam(addr) ==
    (addr >= 49152 /\ addr < 57344) \/ (addr >= 65408 /\ addr < 65535)

\* C23: before PUSH r16 ; POP r16 with SP-1 and SP-2 in work RAM or high
\* RAM: the two steps take 16 and 12 clocks and leave every register pair,
\* SP included, at its prior value, with PC behind the two opcodes.
C23_PushPopRoundTrip ==
    (/\ nsteps = 0
     /\ inWorkOrHighRam(U16(cpu.sp + 65535))
     /\ inWorkOrHighRam(U16(cpu.sp + 65534))) =>
        \E a \in {CPUstep(CpuMachine)} :
          \E b \in {CPUstep(a.s)} :
            /\ a.cycles = 16 /\ b.cycles = 12
            /\ a.s.cpu.sp = U16(cpu.sp + 65534)
            /\ b.s.cpu = [cpu EXCEPT !.pc = 258]

\* PUSH BC ; POP BC has run with SP = 0xC002: the pair is in work RAM at
\* 0xC000 and in BC, and SP is back
C23_Witness ==
    /\ nsteps = 2 /\ Get(rom, 256) = 197 /\ ret.cycles = 12
    /\ cpu.sp = 49154 /\ cpu.b = 165 /\ cpu.c = 90
    /\ Get(mem.wram, 0) = 90 /\ Get(mem.wram, 1) = 165

(***************************************************************************)
(* ADD A,n ; DAA at 0x0100 on packed-BCD operands.                         *)
(***************************************************************************)
\* the bytes whose two nibbles are decimal digits
BcdBytes == {16 * hi + lo : hi \in 0 .. 9, lo \in 0 .. 9}

\* the number a packed-BCD byte stands for, and the byte of a number
bcdValue(x) == 10 * (x \div 16) + (x % 16)

bcdByte(n) == 16 * (n \div 10) + (n % 10)

\* F before the ADD: carry clear, the other flags clear or set
BcdFlags == {0, 224}

\* A holds the first operand and B a copy of it; the second operand is the
\* immediate of ADD A,n (0xC6), and DAA (0x27) follows
InitBcd ==
    /\ mem = loadROM(MemoryInit, 32768, 0, 0)
    /\ ppu = PPUReset
    /\ \E a \in BcdBytes, f \in BcdFlags :
          cpu = [CPUReset EXCEPT !.a = a, !.b = a, !.f = f]
    /\ \E b \in BcdBytes : rom = (256 :> 198) @@ (257 :> b) @@ (258 :> 39)
    /\ clocks = 0
    /\ ret = [cycles |-> 0, path |-> "none", wasHalted |-> FALSE]
    /\ nwrites = 0
    /\ nsteps = 0
    /\ apu = APUReset
    /\ audio = AudioInit
    /\ lastRead = NoRead

MaxBcdSteps == 2

NextBcd == CPUStep({0}, MaxBcdSteps)

SpecBcd == InitBcd /\ [][NextBcd]_vars

\* the decimal sum of the two operands, B being the first and the immediate
\* the second
bcdSum == bcdValue(cpu.b) + bcdValue(Get(rom, 257))

\* C24: after ADD A,b ; DAA on packed-BCD a and b, A is the packed BCD of
\* (a+b) mod 100, C says a+b >= 100, Z says A = 0, and H and N are clear.
C24_DaaAfterAdd ==
    (nsteps = 2 /\ cpu.pc = 259) =>
        /\ cpu.a = bcdByte(bcdSum % 100)
        /\ getC(CpuMachine) = (bcdSum >= 100)
        /\ getZ(CpuMachine) = (cpu.a = 0)
        /\ ~getH(CpuMachine)
        /\ ~getN(CpuMachine)

\* 0x45 + 0x38 has given 0x83 with C clear
C24_Witness ==
    /\ nsteps = 2 /\ cpu.pc = 259 /\ cpu.b = 69 /\ Get(rom, 257) = 56
    /\ cpu.a = 131 /\ cpu.f = 0

(***************************************************************************)
(* Channel 3: the program's writes to NR30, NR31, NR34 and NR52, and the   *)
(* length clock of the frame sequencer.                                    *)
(***************************************************************************)
\* APU::stepFrameSequencer, the length clock of channel 3
lengthClock3(a) ==
    IF a.ch3.lengthEnabled /\ a.ch3.lengthCounter > 0
    THEN [a EXCEPT !.ch3.lengthCounter = @ - 1,
                   !.ch3.enabled = IF a.ch3.lengthCounter = 1 THEN FALSE ELSE @]
    ELSE a

MaxCh3Writes == 3

\* the length clocks of a run, counted in clocks
MaxLengthClocks == 2

\* NR30, NR31, NR34, NR52
Ch3Regs == {26, 27, 30, 38}

\* DAC off / on, trigger with and without the length enable, length 1
Ch3Vals == {0, 128, 192, 255}

Ch3Write(reg, val) ==
    /\ nwrites < MaxCh3Writes
    /\ LET r == write(Machine, 65280 + reg, val)
       IN  mem' = r.mem /\ apu' = r.apu
    /\ nwrites' = nwrites + 1
    /\ UNCHANGED <<ppu, cpu, clocks, ret, rom, nsteps, audio, lastRead>>

\* a length clock that counts (steps 0, 2, 4, 6 of the frame sequencer)
LengthClock3 ==
    /\ clocks < MaxLengthClocks
    /\ lengthClock3(apu) # apu
    /\ apu' = lengthClock3(apu)
    /\ clocks' = clocks + 1
    /\ UNCHANGED <<mem, ppu, cpu, ret, nwrites, rom, nsteps, audio, lastRead>>

NextCh3 ==
    \/ \E reg \in Ch3Regs, val \in Ch3Vals : Ch3Write(reg, val)
    \/ LengthClock3

SpecCh3 == Init /\ [][NextCh3]_vars

\* C25: channel 3 is enabled only with its DAC on; a write to NR30 (0xFF1A)
\* with bit 7 clear leaves it disabled and NR52 (0xFF26) reading bit 2
\* clear; with the DAC off a write to NR34 (0xFF1E) with the trigger bit
\* leaves it disabled.
C25_Ch3NeedsDac ==
    /\ apu.ch3.enabled => apu.ch3.dacEnabled
    /\ \A val \in 0 .. 127 :
          LET s == write(Machine, 65306, val)
          IN  ~s.apu.ch3.enabled /\ BAnd(read(s, 65318, 0), 4) = 0
    /\ ~apu.ch3.dacEnabled =>
          \A val \in 128 .. 255 : ~write(Machine, 65310, val).apu.ch3.enabled

\* NR34 was last written with the trigger bit (the frequency timer is
\* loaded), NR30 holds 0, the DAC is off and the channel is not enabled
C25_Witness ==
    /\ apu.ch3.frequencyTimer = 4096
    /\ BAnd(Get(apu.registers, 14), 128) # 0
    /\ Get(apu.registers, 10) = 0
    /\ ~apu.ch3.dacEnabled /\ ~apu.ch3.enabled
    /\ BAnd(read(Machine, 65318, 0), 4) = 0

(***************************************************************************)
(* CPU::reset, by the constructor and on a CPU that has run.               *)
(***************************************************************************)
MaxResetSteps == 3

\* LD BC,nn, LD DE,nn, LD HL,nn, LD SP,nn, LD A,n, XOR A, HALT, EI
ResetOps == {1, 17, 33, 49, 62, 175, 118, 251}

\* cpu->reset() after at least one step; ret.path marks the state it leaves
Reset ==
    /\ nsteps > 0 /\ ret.path # "reset"
    /\ cpu' = CPUReset
    /\ ret' = [cycles |-> 0, path |-> "reset", wasHalted |-> cpu.halted]
    /\ UNCHANGED <<mem, ppu, clocks, nwrites, rom, nsteps, apu, audio, lastRead>>

NextReset ==
    \/ CPUStep(ResetOps, MaxResetSteps)
    \/ Reset

SpecReset == Init /\ [][NextReset]_vars

\* C26: right after construction (no step made yet) and right after a
\* reset, AF = 0x01B0, BC = 0x0013, DE = 0x00D8, HL = 0x014D, SP = 0xFFFE,
\* PC = 0x0100, and IME, the pending EI and halted are false.
C26_ResetState ==
    (nsteps = 0 \/ ret.path = "reset") =>
        /\ AF(CpuMachine) = 432 /\ BC(CpuMachine) = 19
        /\ DE(CpuMachine) = 216 /\ HL(CpuMachine) = 333
        /\ cpu.sp = 65534 /\ cpu.pc = 256
        /\ ~cpu.ime /\ ~cpu.imeScheduled /\ ~cpu.halted

\* a CPU halted by its program, with BC loaded, has been reset
C26_Witness ==
    /\ ret.path = "reset" /\ ret.wasHalted /\ nsteps = 2
    /\ Get(rom, 256) = 1 /\ Get(rom, 259) = 118
    /\ cpu = CPUReset

(***************************************************************************)
(* The free-running PPU over two frames.                                   *)
(***************************************************************************)
\* clocks delivered: two frames (2 * 70224) and a bit
MaxFrameClocks == 140500

\* ppu->step(cycles) in GameBoy::run, counted
PPUStepFrames(c) ==
    /\ clocks + c <= MaxFrameClocks
    /\ LET r == PPUstep(Machine, c)
       IN  mem' = r.mem /\ ppu' = r.ppu
    /\ clocks' = clocks + c
    /\ UNCHANGED <<cpu, ret, nwrites, rom, nsteps, apu, audio, lastRead>>

NextPPUFrames ==
    \/ \E c \in StepCycles : PPUStepFrames(c)
    \/ AckInterrupt(INT_VBLANK)

SpecPPUFrames == Init /\ [][NextPPUFrames]_vars

\* 154 lines of 456 clocks
FrameClocks == 154 * 456

\* the line the clocks delivered lie in
lineOf(t) == (t \div 456) % 154

\* the VBlank entries among the first t clocks (one per frame, at line 144)
vblanksBy(t) == (t + FrameClocks - VBlankClock) \div FrameClocks

\* C27: with the LCD on and no register writes, for every split of the
\* clocks into step(c) calls with c in {4,...,24}: LY is the line of the
\* clocks delivered (0..153, 456 clocks each, 0 after 153), the mode is 1
\* exactly on lines 144..153 and 2 in the first 80 clocks of line 0, and a
\* step call raises IF bit 0 exactly when it completes line 143 (once per
\* 70224 clocks).
C27_FrameCycle ==
    /\ [](/\ ppu.ly = lineOf(clocks)
          /\ (ppu.mode = 1) <=> (lineOf(clocks) >= 144)
          /\ (lineOf(clocks) = 0 /\ clocks % 456 < 80) => ppu.mode = 2)
    /\ [][ clocks' # clocks =>
             /\ (~Bit(Get(mem.io, 15), 0) /\ Bit(Get(mem'.io, 15), 0)) =>
                    vblanksBy(clocks') = vblanksBy(clocks) + 1
             /\ vblanksBy(clocks') # vblanksBy(clocks) =>
                    Bit(Get(mem'.io, 15), 0) ]_vars

\* the step call that completed line 153 of the first frame: LY is back at 0
\* in mode 2, the VBlank request of the frame acknowledged
C27_Witness ==
    /\ clocks >= FrameClocks /\ clocks < FrameClocks + 24
    /\ ppu.ly = 0 /\ ppu.mode = 2 /\ ppu.scanlineCycles = clocks - FrameClocks
    /\ ~Bit(Get(mem.io, 15), 0) /\ ppu.frameReady

(***************************************************************************)
(* The STAT interrupt: the free-running PPU with the program's writes to   *)
(* STAT and LYC and the CPU's acknowledgement of the STAT request.         *)
(***************************************************************************)
\* clocks delivered: three lines and a bit
MaxStatClocks == 1400

MaxStatWrites == 2

\* written to STAT: no source, the LYC source, the HBlank source
StatSources == {0, 64, 8}

\* written to LYC
LycVals == {0, 1, 2}

PPUStepStat(c) ==
    /\ clocks + c <= MaxStatClocks
    /\ LET r == PPUstep(Machine, c)
       IN  mem' = r.mem /\ ppu' = r.ppu
    /\ clocks' = clocks + c
    /\ UNCHANGED <<cpu, ret, nwrites, rom, nsteps, apu, audio, lastRead>>

\* write(0xFF41, val) or write(0xFF45, val) by the program
StatWrite(addr, val) ==
    /\ nwrites < MaxStatWrites
    /\ LET r == write(Machine, addr, val)
       IN  mem' = r.mem /\ ppu' = r.ppu
    /\ nwrites' = nwrites + 1
    /\ UNCHANGED <<cpu, clocks, ret, rom, nsteps, apu, audio, lastRead>>

NextStat ==
    \/ \E c \in StepCycles : PPUStepStat(c)
    \/ \E v \in StatSources : StatWrite(65345, v)
    \/ \E v \in LycVals : StatWrite(65349, v)
    \/ AckInterrupt(INT_STAT)

SpecStat == Init /\ [][NextStat]_vars

\* C28: a PPU step that sets IF bit 1 while the LYC source is the only
\* STAT source enabled ends with LY = LYC, and no PPU step sets IF bit 1
\* while STAT bits 3-6 are all clear.
C28_StatOnlyOnMatch ==
    [][ clocks' # clocks =>
          /\ (/\ BAnd(ppu.stat, 120) = 64
              /\ ~Bit(Get(mem.io, 15), 1) /\ Bit(Get(mem'.io, 15), 1)) =>
                 ppu'.ly = ppu'.lyc
          /\ BAnd(ppu.stat, 120) = 0 =>
                 (Bit(Get(mem'.io, 15), 1) <=> Bit(Get(mem.io, 15), 1)) ]_vars

(***************************************************************************)
(* The LCD turned off and on by the program while the PPU is stepped.      *)
(***************************************************************************)
MaxLcdClocks == 1000

MaxLcdWrites == 2

\* the clocks of a step call: the shortest and longest instruction, a line
LcdCycles == {4, 24, 456}

\* written to LCDC: LCD on and off, with the window on; written to STAT:
\* the HBlank source
LcdWrites == {<<65344, 177>>, <<65344, 49>>, <<65345, 8>>}

PPUStepLcd(c) ==
    /\ clocks + c <= MaxLcdClocks
    /\ LET r == PPUstep(Machine, c)
       IN  mem' = r.mem /\ ppu' = r.ppu
    /\ clocks' = clocks + c
    /\ UNCHANGED <<cpu, ret, nwrites, rom, nsteps, apu, audio, lastRead>>

LcdWrite(addr, val) ==
    /\ nwrites < MaxLcdWrites
    /\ LET r == write(Machine, addr, val)
       IN  mem' = r.mem /\ ppu' = r.ppu
    /\ nwrites' = nwrites + 1
    /\ UNCHANGED <<cpu, clocks, ret, rom, nsteps, apu, audio, lastRead>>

NextLcd ==
    \/ \E c \in LcdCycles : PPUStepLcd(c)
    \/ \E w \in LcdWrites : LcdWrite(w[1], w[2])
    \/ AckInterrupt(INT_STAT)

SpecLcd == Init /\ [][NextLcd]_vars

\* C29: a write that takes LCDC bit 7 from 1 to 0 leaves LY = 0, the
\* scanline clock 0 and the mode 0; a step call made while LCDC bit 7 is 0
\* leaves LY, the mode, the scanline clock, STAT, IF, frameReady and the
\* window-line counter as they were.
C29_LcdOff ==
    [][ /\ (nwrites' # nwrites /\ Bit(ppu.lcdc, 7) /\ ~Bit(ppu'.lcdc, 7)) =>
              (ppu'.ly = 0 /\ ppu'.scanlineCycles = 0 /\ ppu'.mode = 0)
        /\ (clocks' # clocks /\ ~Bit(Get(mem.io, 64), 7)) =>
              /\ ppu'.ly = ppu.ly /\ ppu'.mode = ppu.mode
              /\ ppu'.scanlineCycles = ppu.scanlineCycles
              /\ ppu'.stat = ppu.stat
              /\ Get(mem'.io, 15) = Get(mem.io, 15)
              /\ ppu'.frameReady = ppu.frameReady
              /\ ppu'.windowLine = ppu.windowLine ]_vars

\* the LCD was turned off on line 2 (two lines were drawn with the window
\* on) and the PPU has been stepped since
C29_Witness ==
    /\ ~Bit(ppu.lcdc, 7) /\ ~Bit(Get(mem.io, 64), 7)
    /\ ppu.windowLine = 2 /\ clocks = MaxLcdClocks
    /\ ppu.ly = 0 /\ ppu.scanlineCycles = 0 /\ ppu.mode = 0
    /\ BAnd(ppu.stat, 3) = 0

(***************************************************************************)
(* OAM DMA from the pages at and above 0xE000.                             *)
(***************************************************************************)
\* source pages: first and last page of echo RAM, the OAM page, the I/O page
HighDmaPages == {224, 253, 254, 255}

\* bytes a program changes while a DMA is pending: the work-RAM bytes
\* behind 0xE000 and 0xFD9F, and the first byte of OAM
HighDmaPokes == {49152, 56735, 65024}

NextDmaHigh ==
    \/ \E page \in HighDmaPages : DmaStart(page)
    \/ \E addr \in HighDmaPokes, val \in {0, 90} : DmaPoke(addr, val)
    \/ \E c \in DmaCycles : UpdateDMA(c)

SpecDmaHigh == Init /\ [][NextDmaHigh]_vars

\* C30: the updateDMA call that completes a DMA from a page >= 0xE0 leaves
\* oam[i] = wram[((page << 8) + i - 0xE000) mod 0x2000] for i in 0..159.
C30_HighPagesCopyWram ==
    [][ (nwrites > 0 /\ clocks < 640 /\ clocks' >= 640 /\ dmaPage >= 224) =>
          \A i \in 0 .. 159 :
              Get(mem'.oam, i) =
                  Get(mem'.wram, (dmaPage * 256 + i - 57344) % 8192) ]_vars

\* C31: with an MBC3 cartridge, a write of val to 0x4000-0x5FFF sets
\* ramBank to val & 0x03 when val is outside 0x08..0x0C, and sets rtcEnabled
\* and rtcRegister = val, leaving ramBank alone, when val is in 0x08..0x0C.
C31_Mbc3RamBank ==
    mem.mbcType = 3 =>
        \A addr \in {16384, 24575} : \A val \in 0 .. 255 :
            LET s == write(Machine, addr, val)
            IN  IF val >= 8 /\ val <= 12
                THEN /\ s.mem.rtcEnabled /\ s.mem.rtcRegister = val
                     /\ s.mem.ramBank = mem.ramBank
                ELSE s.mem.ramBank = BAnd(val, 3)

(***************************************************************************)
(* External RAM: the program's writes to the RAM-enable and RAM-bank       *)
(* registers and to the window 0xA000-0xBFFF.                              *)
(***************************************************************************)
\* header byte 0x147: MBC1, MBC3, MBC5 with RAM
RamCartTypes == {3, 19, 27}

\* header byte 0x149: 8 KiB, 32 KiB
RamSizeCodes == {2, 3}

InitExtRam ==
    /\ \E cartType \in RamCartTypes, ramSize \in RamSizeCodes :
          mem = loadROM(MemoryInit, 1048576, cartType, ramSize)
    /\ ppu = PPUReset
    /\ cpu = CPUReset
    /\ clocks = 0
    /\ ret = [cycles |-> 0, path |-> "none", wasHalted |-> FALSE]
    /\ nwrites = 0
    /\ rom = EmptyArr
    /\ nsteps = 0
    /\ apu = APUReset
    /\ audio = AudioInit
    /\ lastRead = NoRead

MaxExtRamWrites == 4

\* RAM enable (0x0A) and disable, bank numbers, and data bytes, written to
\* the enable register, the bank register and both ends of the window
ExtRamWrites ==
    ({0} \X {10, 0}) \cup ({16384} \X {0, 1, 3, 15}) \cup ({40960, 49151} \X {0, 90})

ExtRamWrite(addr, val) ==
    /\ nwrites < MaxExtRamWrites
    /\ mem' = write(Machine, addr, val).mem
    /\ nwrites' = nwrites + 1
    /\ UNCHANGED <<ppu, cpu, clocks, ret, rom, nsteps, apu, audio, lastRead>>

NextExtRam == \E w \in ExtRamWrites : ExtRamWrite(w[1], w[2])

SpecExtRam == InitExtRam /\ [][NextExtRam]_vars

\* both ends of the window and an address inside
ExtRamAddrs == {40960, 45056, 49151}

\* C32: with external RAM enabled, read(addr) right after write(addr, v)
\* returns v for every address of 0xA000-0xBFFF, every bank the program can
\* select and every byte v; with external RAM disabled a write to the
\* window leaves external RAM unchanged and a read returns 0xFF.
C32_ExtRamRoundTrip ==
    \A addr \in ExtRamAddrs : \A v \in {0, 90, 255} :
        LET s == write(Machine, addr, v)
        IN  IF mem.ramEnabled
            THEN read(s, addr, 0) = v
            ELSE s.mem.extRam = mem.extRam /\ read(s, addr, 0) = 255

(***************************************************************************)
(* The cartridge image under bus writes, DMA and the per-step updates of   *)
(* GameBoy::run, on a ROM-only and on an MBC1 cartridge.                   *)
(***************************************************************************)
\* offsets of the image the model gives a byte
ImageOffsets == {0, 159, 256, 16384, 32767}

InitImage ==
    /\ \E cartType \in {0, 1} : mem = loadROM(MemoryInit, 32768, cartType, 0)
    /\ rom = [off \in ImageOffsets |-> 90 + (off % 7)]
    /\ ppu = PPUReset
    /\ cpu = CPUReset
    /\ clocks = 0
    /\ ret = [cycles |-> 0, path |-> "none", wasHalted |-> FALSE]
    /\ nwrites = 0
    /\ nsteps = 0
    /\ apu = APUReset
    /\ audio = AudioInit
    /\ lastRead = NoRead

MaxImageWrites == 2

\* 28 updates of 24 clocks: a DMA started at once completes
MaxImageClocks == 672

\* the program's writes: RAM enable, bank numbers, the last ROM address,
\* work RAM, TAC (timer on, 16 clocks), DMA from ROM pages 0x00 and 0x0A
ImageWrites ==
    {<<0, 10>>, <<8192, 0>>, <<8192, 10>>, <<32767, 0>>, <<49152, 10>>,
     <<65287, 5>>, <<65350, 0>>, <<65350, 10>>}

\* write(addr, val) by the program
ImageWrite(addr, val) ==
    /\ nwrites < MaxImageWrites
    /\ LET r == write(CpuMachine, addr, val)
       IN  mem' = r.mem /\ ppu' = r.ppu /\ apu' = r.apu /\ rom' = r.rom
    /\ nwrites' = nwrites + 1
    /\ UNCHANGED <<cpu, clocks, ret, nsteps, audio, lastRead>>

\* GameBoy::run after a CPU step of c clocks: ppu->step, updateTimer,
\* updateDMA (apu->step reads and writes the APU's own fields only)
RunUpdates(c) ==
    /\ clocks + c <= MaxImageClocks
    /\ LET r == updateDMA(updateTimer(PPUstep(CpuMachine, c), c), c)
       IN  mem' = r.mem /\ ppu' = r.ppu /\ apu' = r.apu /\ rom' = r.rom
    /\ clocks' = clocks + c
    /\ UNCHANGED <<cpu, ret, nwrites, nsteps, audio, lastRead>>

NextImage ==
    \/ \E w \in ImageWrites : ImageWrite(w[1], w[2])
    \/ RunUpdates(24)

SpecImage == InitImage /\ [][NextImage]_vars

\* C33: no step changes a byte or the size of the cartridge image; and on a
\* ROM-only cartridge a write of any byte to an address below 0x8000
\* leaves the whole machine (banks, RAM enable, all memory) as it was.
C33_RomImmutable ==
    /\ [][rom' = rom /\ mem'.romSize = mem.romSize]_vars
    /\ [](mem.mbcType = 0 =>
             \A addr \in MbcAddrs : \A val \in {0, 1, 10, 255} :
                 write(CpuMachine, addr, val) = CpuMachine)

\* a ROM-only cartridge after a write below 0x8000 and a completed DMA
\* from ROM page 0: the image byte at 0x009F is in OAM, the banks and
\* the image are as loaded
C33_Witness ==
    /\ mem.mbcType = 0 /\ nwrites = 2 /\ clocks >= 640
    /\ ~mem.dmaActive /\ Get(mem.io, 70) = 0
    /\ Get(mem.oam, 159) = Get(rom, 159) /\ Get(rom, 159) = 95
    /\ mem.romBank = 1 /\ mem.ramBank = 0 /\ ~mem.ramEnabled

(***************************************************************************)
(* DIV: updateTimer calls, the program's writes to DIV and TAC.  clocks    *)
(* counts the clocks handed to updateTimer since the last write to DIV (or *)
(* since the start), nsteps the writes to DIV, nwrites the writes to TAC.  *)
(***************************************************************************)
\* the machine after construction, and after 65280 clocks of updateTimer
\* with the timer off (DIV = 0xFF, both counters 0)
InitDiv ==
    /\ \E d \in {0, 255} :
          mem = [loadROM(MemoryInit, 32768, 0, 0) EXCEPT !.io = Put(@, 4, d)]
    /\ ppu = PPUReset
    /\ cpu = CPUReset
    /\ clocks = 0
    /\ ret = [cycles |-> 0, path |-> "none", wasHalted |-> FALSE]
    /\ nwrites = 0
    /\ rom = EmptyArr
    /\ nsteps = 0
    /\ apu = APUReset
    /\ audio = AudioInit
    /\ lastRead = NoRead

\* two DIV increments and a bit
MaxDivClocks == 540

MaxDivWrites == 1

MaxTacWrites == 1

\* TAC: timer on at 16 clocks and at 256 clocks
DivTacVals == {5, 7}

\* the clocks of an updateTimer call
DivCycles == {4, 12, 24}

\* memory->updateTimer(cycles)
UpdateDiv(c) ==
    /\ clocks + c <= MaxDivClocks
    /\ mem' = updateTimer(Machine, c).mem
    /\ clocks' = clocks + c
    /\ UNCHANGED <<ppu, cpu, ret, nwrites, rom, nsteps, apu, audio, lastRead>>

\* write(0xFF04, val) by the program
DivWrite(val) ==
    /\ nsteps < MaxDivWrites
    /\ mem' = write(Machine, 65284, val).mem
    /\ clocks' = 0
    /\ nsteps' = nsteps + 1
    /\ UNCHANGED <<ppu, cpu, ret, nwrites, rom, apu, audio, lastRead>>

\* write(0xFF07, val) by the program
TacWrite(val) ==
    /\ nwrites < MaxTacWrites
    /\ Get(mem.io, 7) # val
    /\ mem' = write(Machine, 65287, val).mem
    /\ nwrites' = nwrites + 1
    /\ UNCHANGED <<ppu, cpu, clocks, ret, rom, nsteps, apu, audio, lastRead>>

NextDiv ==
    \/ \E c \in DivCycles : UpdateDiv(c)
    \/ \E val \in {0, 90} : DivWrite(val)
    \/ \E val \in DivTacVals : TacWrite(val)

SpecDiv == InitDiv /\ [][NextDiv]_vars

\* C34: an updateTimer call increments DIV (mod 256) once for every
\* multiple of 256 the clocks counted since the last DIV write reach,
\* whatever the split and TAC; a write to 0xFF04 leaves DIV and the DIV
\* counter at 0 and TIMA and IF as they were; after a write DIV reads 0
\* until 256 clocks have been handed over.
C34_DivTicks ==
    /\ [][ /\ clocks' > clocks =>
                Get(mem'.io, 4) =
                    U8(Get(mem.io, 4) + (clocks' \div 256) - (clocks \div 256))
           /\ nsteps' > nsteps =>
                /\ Get(mem'.io, 4) = 0 /\ mem'.divCounter = 0
                /\ Get(mem'.io, 5) = Get(mem.io, 5)
                /\ Get(mem'.io, 15) = Get(mem.io, 15) ]_vars
    /\ [](/\ mem.divCounter = clocks % 256
          /\ nsteps > 0 => read(Machine, 65284, 0) = clocks \div 256)

\* DIV was 0xFF, wrapped to 0 at 256 clocks with the timer running, and the
\* program has not written it
C34_Witness ==
    /\ nsteps = 0 /\ clocks >= 256 /\ clocks < 280
    /\ Get(mem.io, 4) = 0 /\ Get(mem.io, 7) = 5 /\ Get(mem.io, 5) > 0

(***************************************************************************)
(* The volume envelopes: the program's writes to NRx2 and NRx4 of channels *)
(* 1, 2 and 4 and the step-7 ticks of the frame sequencer.  clocks counts  *)
(* the ticks.                                                              *)
(***************************************************************************)
\* APU::stepFrameSequencer, the envelope of one channel on step 7
envelope(ch) ==
    IF ch.envelopePeriod > 0
    THEN IF ch.envelopeTimer - 1 <= 0
         THEN [ch EXCEPT !.envelopeTimer = ch.envelopePeriod,
                         !.volume = IF ch.envelopeAdd /\ @ < 15 THEN @ + 1
                                    ELSE IF ~ch.envelopeAdd /\ @ > 0 THEN @ - 1
                                    ELSE @]
         ELSE [ch EXCEPT !.envelopeTimer = @ - 1]
    ELSE ch

\* APU::stepFrameSequencer with frameSequencerStep = 7
stepEnvelopes(a) ==
    [a EXCEPT !.ch1 = envelope(@), !.ch2 = envelope(@), !.ch4 = envelope(@)]

MaxEnvWrites == 3

MaxEnvTicks == 5

\* NR12: volume 1, down, period 1; volume 14, up, period 1.  NR22: volume
\* 15, down, period 2.  NR42: volume 0, up, period 3; volume 9, period 0.
\* NR14, NR24, NR44: trigger
EnvWrites ==
    {<<18, 17>>, <<18, 233>>, <<20, 128>>, <<23, 242>>, <<25, 128>>,
     <<33, 11>>, <<33, 144>>, <<35, 128>>}

EnvWrite(reg, val) ==
    /\ nwrites < MaxEnvWrites
    /\ LET r == write(Machine, 65280 + reg, val)
       IN  mem' = r.mem /\ apu' = r.apu
    /\ nwrites' = nwrites + 1
    /\ UNCHANGED <<ppu, cpu, clocks, ret, rom, nsteps, audio, lastRead>>

\* the frame sequencer's tick of step 7
EnvelopeTick ==
    /\ clocks < MaxEnvTicks
    /\ apu' = stepEnvelopes(apu)
    /\ clocks' = clocks + 1
    /\ UNCHANGED <<mem, ppu, cpu, ret, nwrites, rom, nsteps, audio, lastRead>>

NextEnv ==
    \/ \E w \in EnvWrites : EnvWrite(w[1], w[2])
    \/ EnvelopeTick

SpecEnv == Init /\ [][NextEnv]_vars

\* the volume one step nearer to 15 (add) or to 0, saturating
nudged(ch) ==
    IF ch.envelopeAdd THEN (IF ch.volume < 15 THEN ch.volume + 1 ELSE 15)
    ELSE (IF ch.volume > 0 THEN ch.volume - 1 ELSE 0)

\* C35: a step-7 tick moves the volume of each of CH1, CH2, CH4 whose
\* envelope period is > 0 by one toward 15 (add) or 0 (subtract),
\* saturating; and every channel's volume is in 0..15 in every state.
C35_EnvelopeEveryTick ==
    /\ [][ clocks' > clocks =>
             /\ apu.ch1.envelopePeriod > 0 => apu'.ch1.volume = nudged(apu.ch1)
             /\ apu.ch2.envelopePeriod > 0 => apu'.ch2.volume = nudged(apu.ch2)
             /\ apu.ch4.envelopePeriod > 0 => apu'.ch4.volume = nudged(apu.ch4) ]_vars
    /\ [](/\ apu.ch1.volume \in 0 .. 15 /\ apu.ch2.volume \in 0 .. 15
          /\ apu.ch3.volume \in 0 .. 15 /\ apu.ch4.volume \in 0 .. 15)

(***************************************************************************)
(* The frame loop of GameBoy::run: cpu->step() calls until the clocks they *)
(* return add up to CYCLES_PER_FRAME.  The programs are one instruction of *)
(* any opcode from every interrupt situation, and a CPU that stays halted  *)
(* for the whole frame.  clocks is cyclesThisFrame, nsteps the calls.      *)
(***************************************************************************)
CYCLES_PER_FRAME == 70224

\* the machine when a frame starts: VBlank enabled in IE or not, requested
\* in IF (as after power-on) or cleared by a write of IF, IME on or off, the
\* CPU halted or running
InitFrame ==
    /\ \E ie \in {0, 1}, iflag \in {0, 1} :
          mem = [write([mem |-> loadROM(MemoryInit, 32768, 0, 0),
                        ppu |-> PPUReset, apu |-> APUReset],
                       65295, iflag).mem EXCEPT !.ie = ie]
    /\ ppu = PPUReset
    /\ \E ime \in BOOLEAN, halted \in BOOLEAN :
          cpu = [CPUReset EXCEPT !.ime = ime, !.halted = halted]
    /\ clocks = 0
    /\ ret = [cycles |-> 0, path |-> "none", wasHalted |-> FALSE]
    /\ nwrites = 0
    /\ rom = EmptyArr
    /\ nsteps = 0
    /\ apu = APUReset
    /\ audio = AudioInit
    /\ lastRead = NoRead

\* one iteration of the frame loop; after the first the loop is followed
\* while the CPU idles halted
FrameStep ==
    /\ clocks < CYCLES_PER_FRAME
    /\ nsteps > 0 => ret.path = "halted"
    /\ \E s \in (IF pathOf(CpuMachine) = "execute"
                 THEN withImage(CpuMachine, AllOps) ELSE {CpuMachine}) :
          /\ ~touchesAPU(s)
          /\ \E x \in {CPUstep(s)} :
                 /\ cpu' = x.s.cpu
                 /\ mem' = x.s.mem
                 /\ ppu' = x.s.ppu
                 /\ rom' = x.s.rom
                 /\ apu' = x.s.apu
                 /\ ret' = [cycles |-> x.cycles, path |-> x.path,
                            wasHalted |-> cpu.halted]
                 /\ clocks' = clocks + x.cycles
    /\ nsteps' = nsteps + 1
    /\ UNCHANGED <<nwrites, audio, lastRead>>

SpecFrame == InitFrame /\ [][FrameStep]_vars

\* C36: every step() call returns 4, 8, 12, 16, 20 or 24 clocks, so the
\* clocks of a frame are at least 4 per call and the loop that runs while
\* they are below 70224 makes at most 17556 calls.
C36_StepCycles ==
    /\ nsteps > 0 => ret.cycles \in {4, 8, 12, 16, 20, 24}
    /\ 4 * nsteps <= clocks
    /\ nsteps <= 17556

\* the longest frame: 17556 calls of 4 clocks on a CPU halted throughout,
\* and the loop is over
C36_Witness ==
    /\ nsteps = 17556 /\ clocks = CYCLES_PER_FRAME /\ cpu.halted
    /\ ret.path = "halted" /\ ret.cycles = 4

(***************************************************************************)
(* The VRAM offsets the scanline renderer reads, and the window-line       *)
(* counter, while the program turns the LCD off and on again mid-frame.    *)
(***************************************************************************)
\* PPU::renderBackground and PPU::renderWindow, the tile fetch of one pixel:
\* the offsets of vram[tileAddr], vram[tileDataAddr + line] and
\* vram[tileDataAddr + line + 1].  tileAddr and tileDataAddr are uint16_t;
\* a tile number outside the array reads as 0 here.
tileFetch(s, tileMapBase, tileRow, tileCol, line) ==
    LET tileAddr == U16(tileMapBase + tileRow + tileCol)
        tileNum == IF tileAddr < 8192 THEN Get(s.mem.vram, tileAddr) ELSE 0
        tileDataAddr == IF ~Bit(s.ppu.lcdc, 4)
                        THEN U16(4096 + int8(tileNum) * 16)
                        ELSE U16(tileNum * 16)
    IN  {tileAddr, tileDataAddr + line, tileDataAddr + line + 1}

\* PPU::renderBackground: the VRAM offsets read for the line
backgroundReads(s) ==
    LET yPos == U8(s.ppu.ly + s.ppu.scy)
    IN  UNION {tileFetch(s, IF Bit(s.ppu.lcdc, 3) THEN 7168 ELSE 6144,
                         U16((yPos \div 8) * 32),
                         U8(pixel + s.ppu.scx) \div 8,
                         U8((yPos % 8) * 2)) : pixel \in 0 .. (SCREEN_WIDTH - 1)}

\* PPU::renderWindow: the VRAM offsets read for the line
windowReads(s) ==
    IF s.ppu.wy > s.ppu.ly \/ s.ppu.wx > 166 THEN {}
    ELSE UNION {tileFetch(s, IF Bit(s.ppu.lcdc, 6) THEN 7168 ELSE 6144,
                          U16((s.ppu.windowLine \div 8) * 32),
                          U16((pixel - (s.ppu.wx - 7)) \div 8),
                          U8((s.ppu.windowLine % 8) * 2)) :
                  pixel \in {p \in 0 .. (SCREEN_WIDTH - 1) : p - (s.ppu.wx - 7) >= 0}}

\* PPU::renderSprites: the VRAM offsets read for the line, sprite by sprite
\* until ten are on the line
RECURSIVE spriteReads(_, _, _)
spriteReads(s, sprite, spritesOnLine) ==
    IF sprite >= 40 \/ spritesOnLine >= 10 THEN {}
    ELSE LET spriteHeight == IF Bit(s.ppu.lcdc, 2) THEN 16 ELSE 8
             yPos == U8(Get(s.mem.oam, sprite * 4) - 16)
             attrs == Get(s.mem.oam, sprite * 4 + 3)
             tileNum == IF spriteHeight = 16
                        THEN BAnd(Get(s.mem.oam, sprite * 4 + 2), 254)
                        ELSE Get(s.mem.oam, sprite * 4 + 2)
             line == IF Bit(attrs, 6) THEN (spriteHeight - 1) - (s.ppu.ly - yPos)
                     ELSE s.ppu.ly - yPos
             tileDataAddr == U16(tileNum * 16 + line * 2)
         IN  IF s.ppu.ly < yPos \/ s.ppu.ly >= yPos + spriteHeight
             THEN spriteReads(s, sprite + 1, spritesOnLine)
             ELSE {tileDataAddr, tileDataAddr + 1}
                  \cup spriteReads(s, sprite + 1, spritesOnLine + 1)

\* PPU::renderScanline: every VRAM offset read for the line
scanlineReads(s) ==
    IF s.ppu.ly >= SCREEN_HEIGHT THEN {}
    ELSE (IF Bit(s.ppu.lcdc, 0) THEN backgroundReads(s) ELSE {})
         \cup (IF Bit(s.ppu.lcdc, 5) /\ Bit(s.ppu.lcdc, 0) THEN windowReads(s) ELSE {})
         \cup (IF Bit(s.ppu.lcdc, 1) THEN spriteReads(s, 0, 0) ELSE {})

\* the clocks of a step call
WinCycles == 24

\* the lines during whose HBlank the program turns the LCD off
OffLines == {72, 143}

MaxWinWrites == 4

\* what the program sets up before the frame: a sprite on lines 0..15 with
\* the last tile, flipped; tile numbers 0x80 and 0x7F in both tile maps;
\* LCDC with LCD, window, background and sprites on, window map 0x9C00,
\* and either way of addressing the tile data
WinSetup ==
    <<<<65024, 16>>, <<65025, 8>>, <<65026, 255>>, <<65027, 64>>,
      <<38912, 128>>, <<38913, 127>>, <<39936, 128>>, <<39937, 127>>>>

RECURSIVE writeAll(_, _)
writeAll(s, ws) ==
    IF ws = <<>> THEN s
    ELSE writeAll(write(s, Head(ws)[1], Head(ws)[2]), Tail(ws))

InitWin ==
    /\ \E lcdc \in {231, 247} :
         \E r \in {write(writeAll([mem |-> loadROM(MemoryInit, 32768, 0, 0),
                                   ppu |-> PPUReset, apu |-> APUReset], WinSetup),
                         65344, lcdc)} :
             mem = r.mem /\ ppu = r.ppu
    /\ cpu = CPUReset
    /\ clocks = 0
    /\ ret = [cycles |-> 0, path |-> "none", wasHalted |-> FALSE]
    /\ nwrites = 0
    /\ rom = EmptyArr
    /\ nsteps = 0
    /\ apu = APUReset
    /\ audio = AudioInit
    /\ lastRead = NoRead

\* ppu->step(cycles) of the frame loop; nsteps counts the lines drawn since
\* the frame's VBlank
PPUStepWin ==
    /\ \E r \in {PPUstep(Machine, WinCycles)} :
         /\ mem' = r.mem /\ ppu' = r.ppu
         /\ nsteps' = IF r.ppu.mode = 1 THEN 0
                      ELSE IF ppu.mode = 3 /\ r.ppu.mode = 0 THEN nsteps + 1
                      ELSE nsteps
    /\ UNCHANGED <<cpu, clocks, ret, nwrites, rom, apu, audio, lastRead>>

\* the program writes LCDC with bit 7 flipped: off during the HBlank of one
\* of OffLines, on again at any time
LcdToggle ==
    /\ nwrites < MaxWinWrites
    /\ Bit(ppu.lcdc, 7) => ppu.ly \in OffLines /\ ppu.mode = 0
    /\ \E r \in {write(Machine, 65344, BXor(Get(mem.io, 64), 128))} :
         mem' = r.mem /\ ppu' = r.ppu
    /\ nwrites' = nwrites + 1
    /\ UNCHANGED <<cpu, clocks, ret, rom, nsteps, apu, audio, lastRead>>

NextWin == PPUStepWin \/ LcdToggle

SpecWin == InitWin /\ [][NextWin]_vars

\* the next step call renders a scanline
rendersNext ==
    /\ Bit(Get(mem.io, 64), 7) /\ ppu.mode = 3
    /\ ppu.scanlineCycles + WinCycles >= 172
    /\ ppu.ly < SCREEN_HEIGHT

\* C37: whenever a scanline is rendered the window-line counter is at most
\* 143 and every VRAM offset the renderer reads is within 0..0x1FFF, however
\* often the LCD is turned off and on again mid-frame.
C37_RenderInBounds ==
    rendersNext =>
        /\ ppu.windowLine <= 143
        /\ \A off \in scanlineReads(stepLoadRegs(Machine)) : off \in 0 .. 8191

(***************************************************************************)
(* The timer while the program rewrites TAC between updateTimer calls.     *)
(***************************************************************************)
MaxSwitchClocks == 120

MaxSwitches == 2

\* TAC: the slowest and the two fastest rates enabled, the fastest disabled
SwitchVals == {4, 5, 6, 1}

SwitchCycles == {4, 24}

\* write(0xFF07, val) by the program, between two updateTimer calls
TacSwitch(val) ==
    /\ nwrites < MaxSwitches
    /\ readIO(Machine, 7) # val
    /\ mem' = write(Machine, 65287, val).mem
    /\ nwrites' = nwrites + 1
    /\ UNCHANGED <<ppu, cpu, clocks, ret, rom, nsteps, apu, audio, lastRead>>

\* memory->updateTimer(cycles); clocks counts the clocks handed over
UpdateSwitched(c) ==
    /\ clocks + c <= MaxSwitchClocks
    /\ mem' = updateTimer(Machine, c).mem
    /\ clocks' = clocks + c
    /\ UNCHANGED <<ppu, cpu, ret, nwrites, rom, nsteps, apu, audio, lastRead>>

NextSwitch ==
    \/ \E val \in SwitchVals : TacSwitch(val)
    \/ \E c \in SwitchCycles : UpdateSwitched(c)

SpecSwitch == Init /\ [][NextSwitch]_vars

\* ceil(c / period)
ceilDiv(c, period) == (c + period - 1) \div period

\* C38: an updateTimer(c) call increments TIMA at most ceil(c / period)
\* times for the period TAC selects at the call, also after the program has
\* changed TAC between calls.
C38_NoTimaBurst ==
    [][clocks' > clocks =>
          U8(Get(mem'.io, 5) - Get(mem.io, 5)) <=
              ceilDiv(clocks' - clocks, getTimerFrequency(Machine))]_vars

(***************************************************************************)
(* The noise channel's shift register under channel-timer reloads, NR43    *)
(* writes that switch the width mode, and NR44 triggers.                   *)
(***************************************************************************)
\* APU::stepChannels, channel 4: the timer counts down, and on reaching 0
\* reloads and clocks the shift register
stepChannel4(a) ==
    LET t == IF a.ch4.frequencyTimer > 0 THEN a.ch4.frequencyTimer - 1
             ELSE a.ch4.frequencyTimer
    IN  IF t <= 0
        THEN LET xorResult == BXor(a.ch4.lfsr % 2, (a.ch4.lfsr \div 2) % 2)
                 shifted == BOr(a.ch4.lfsr \div 2, xorResult * 16384)
             IN  [a EXCEPT !.ch4.frequencyTimer =
                               divisors[a.ch4.divisor + 1] * 2 ^ a.ch4.shift,
                           !.ch4.lfsr =
                               IF a.ch4.widthMode
                               THEN BOr(BClear(shifted, 64), xorResult * 64)
                               ELSE shifted]
        ELSE [a EXCEPT !.ch4.frequencyTimer = t]

\* APU::step, the channel-4 part of its loop of `cycles` stepChannels calls
RECURSIVE stepChannel4Times(_, _)
stepChannel4Times(a, cycles) ==
    IF cycles = 0 THEN a ELSE stepChannel4Times(stepChannel4(a), cycles - 1)

\* the clocks of an APU::step call: one reload of the fastest noise timer
Ch4Cycles == 8

\* NR43 with the width mode off and on (divisor 0, shift 0); NR44 trigger
Ch4Writes == {<<34, 0>>, <<34, 8>>, <<35, 128>>}

\* apu->step(cycles) of the frame loop, as far as channel 4 goes
Ch4Step ==
    /\ apu' = stepChannel4Times(apu, Ch4Cycles)
    /\ UNCHANGED <<mem, ppu, cpu, clocks, ret, nwrites, rom, nsteps, audio, lastRead>>

\* write(0xFF00 + reg, val) by the program
Ch4Write(reg, val) ==
    /\ \E r \in {write(Machine, 65280 + reg, val)} : mem' = r.mem /\ apu' = r.apu
    /\ UNCHANGED <<ppu, cpu, clocks, ret, nwrites, rom, nsteps, audio, lastRead>>

NextCh4 ==
    \/ Ch4Step
    \/ \E w \in Ch4Writes : Ch4Write(w[1], w[2])

SpecCh4 == Init /\ [][NextCh4]_vars

\* C39: the noise shift register is never 0 and never above 0x7FFF.
C39_LfsrAlive == apu.ch4.lfsr \in 1 .. 32767

(***************************************************************************)
(* Interrupts while IME is off.                                            *)
(***************************************************************************)
\* a step() call made with IME false after the promotion of imeScheduled
ImeOffStep == nsteps' = nsteps + 1 /\ ~cpu.ime /\ ~cpu.imeScheduled

\* the opcode the step() call fetches
fetched == read8([CpuMachine EXCEPT !.rom = rom'], cpu.pc)

\* opcodes of the control alphabet that touch neither the stack nor memory:
\* NOP, LD A,n, HALT, DI, EI
QuietOps == {0, 62, 118, 243, 251}

\* C40: with IME false, handleInterrupts returns 0 and changes nothing but
\* halted, which it clears when an enabled interrupt is pending, whatever IF
\* and IE contain; a step() call with IME false after the promotion never
\* takes the interrupt path: it idles if the CPU stays halted, and otherwise
\* executes the next opcode, which alone decides SP, PC and IF (an opcode
\* that touches neither stack nor memory leaves SP, IF and memory as they
\* were and PC behind itself); IME stays false unless the opcode is EI or
\* RETI, and it is false after DI.
C40_NoDispatchImeOff ==
    /\ [](\A ie \in {0, 1, 31, 255}, if \in {0, 4, 225, 255} :
             LET s == [CpuMachine EXCEPT !.cpu.ime = FALSE, !.mem.ie = ie,
                                         !.mem.io = Put(@, 15, if)]
             IN  handleInterrupts(s) =
                     [s |-> [s EXCEPT !.cpu.halted = @ /\ pendingOf(s) = 0],
                      cycles |-> 0])
    /\ [][ImeOffStep =>
            /\ ret'.path # "interrupt"
            /\ ret'.path = "halted" =>
                   /\ pendingOf(CpuMachine) = 0
                   /\ cpu' = cpu /\ mem' = mem /\ ppu' = ppu /\ rom' = rom
            /\ ret'.path = "execute" =>
                   /\ fetched \notin {217, 251} => ~cpu'.ime /\ ~cpu'.imeScheduled
                   /\ fetched \in QuietOps =>
                          /\ cpu'.sp = cpu.sp /\ mem' = mem
                          /\ cpu'.pc = U16(cpu.pc + 1 + immLen(fetched))
                   /\ cpu'.halted = (fetched = 118)]_vars
    /\ [][(nsteps' = nsteps + 1 /\ ret'.path = "execute" /\ fetched = 243) =>
              ~cpu'.ime /\ ~cpu'.imeScheduled]_vars

\* C40's case: with IME off and VBlank requested and enabled, a halted CPU
\* was woken and executed the next opcode; nothing was pushed, IF is as it
\* was and PC is behind the opcode, not at the vector
C40_Witness ==
    /\ ret.wasHalted /\ ret.path = "execute" /\ ~cpu.ime /\ ~cpu.imeScheduled
    /\ getIE(Machine) = 1 /\ getIF(Machine) = 225
    /\ cpu.sp = 65534 /\ cpu.pc > 256 /\ ~cpu.halted

====
